---- MODULE Spec2Model ----
(***************************************************************************)
(* Streaming chat relay (POST /api/chat), the client reader loop of        *)
(* handleSendMessage, and the transcript cache / rate limiter of           *)
(* getTranscript, as state machines.                                       *)
(*                                                                         *)
(* Text is a sequence of tokens; concatenation of strings is \o.           *)
(* A JSON record is [chunk, done, fullResponse, error] with Absent for a    *)
(* key the object does not have.                                           *)
(***************************************************************************)
EXTENDS Integers, Sequences, FiniteSets, TLC

\* ------------------------------------------------------------------ bounds
MaxDeltas == 2
MaxTurns == 1
PartsPerRecord == 2

\* ------------------------------------------------------------ chat: values
Absent == << "<absent>" >>
EmptyText == << >>
DeltaTexts == { << >>, <<"a">>, <<"b">> }
ErrorMessages == { << "stream failed" >> }
RejectStatuses == { 400, 500 }
SorryText(err) == << "Sorry, I couldn't process your request. " >> \o err

VARIABLES
  \* --- relay (one POST handler instance per turn)
  srvPc,          \* "IDLE" | "STREAMING" | "COMPLETE" | "FAILED" | "REJECTED"
  srvStream,      \* "none" | "open": has chat.sendMessageStream returned its iterator
  responseText,   \* the accumulator `responseText`
  enqueued,       \* every record passed to controller.enqueue, in order
  closed,         \* controller.close() was called
  streamCalls,    \* calls of chat.sendMessageStream made by this request
  aiYielded,      \* the texts of the deltas the AI stream has yielded so far
  httpStatus,     \* status of the Response returned, 0 while none
  \* --- transport
  wire,           \* encoded units enqueued and not yet read by the client
  \* --- client (video page)
  cliPc,          \* "idle" | "awaitResponse" | "reading" | "finished"
  messages,       \* the `messages` state
  aiMessageId,    \* id of the streaming placeholder of the current turn
  accumulatedText,
  isAiThinking,
  turn,           \* turns started
  readOutcome,    \* how the current turn left the try block
  sawError,       \* an {error, done:true} record was parsed in this turn
  chatHistory,    \* the chatHistory of the latest request body
  flips           \* times the current placeholder went isStreaming true -> false

chatVars == << srvPc, srvStream, responseText, enqueued, closed, streamCalls,
               aiYielded, httpStatus, wire, cliPc, messages, aiMessageId,
               accumulatedText, isAiThinking, turn, readOutcome, sawError, flips,
               chatHistory >>

srvVars == << srvPc, srvStream, responseText, enqueued, closed, streamCalls,
              aiYielded, httpStatus >>

cliVars == << cliPc, messages, aiMessageId, accumulatedText, isAiThinking, turn,
              readOutcome, sawError, flips, chatHistory >>

VARIABLES
  \* --- transcript cache and rate limiter (process-wide)
  now,             \* Date.now()
  transcriptCache, \* Map videoId -> {entries, timestamp}
  requestCount,    \* rateLimitTracker.requestCount
  resetTime,       \* rateLimitTracker.resetTime
  \* --- one getTranscript call per caller at a time
  callPc,          \* "idle" | "waiting" | "fetching" | "backoff" | "done"
  callVideo,       \* videoId
  callNow,         \* the `now` captured by the running invocation
  callRetries,     \* retries
  callWakeAt,      \* when the pending timer / provider answer is due
  callResult,      \* value returned
  callAttempts,    \* fetch attempts the call has issued
  callLast,        \* outcome of the call's latest answered attempt
  callBackoffs,    \* each backoff delay the call slept, in order
  callAdmit,  \* "none", or whether requestCount was "below" or "at" the ceiling
                   \* when the call passed the rate check
  callWaits,       \* times the call suspended on the rate limit
  callsStarted     \* getTranscript calls made so far

trVars == << now, transcriptCache, requestCount, resetTime, callPc, callVideo,
             callNow, callRetries, callWakeAt, callResult, callAttempts, callLast, callBackoffs, callAdmit, callWaits, callsStarted >>

VARIABLES
  \* --- POST /api/chat before the stream: request, transcript context, sends
  postPc,            \* "IDLE" | "RECEIVED" | "ASSEMBLED" | "READY" | "STREAMING" | "FAILED" | "REJECTED"
  reqMessage,        \* body.userMessage, a sequence of tokens
  reqTimestamp,      \* body.timestamp in seconds, NoTimestamp when undefined
  postTranscript,    \* what getTranscript(videoId) resolved to
  timestampsToCheck, \* the array `timestampsToCheck`
  transcriptContext, \* the snippet blocks of `transcriptContext`, << >> for ''
  messageToSend,     \* the message of the streaming send
  sessionSends,      \* every send made on the chat session, in order
  postStatus,        \* status of the Response, 0 while none
  postError,         \* code/message of a JSON error Response, "none" otherwise
  postInlineError,   \* an {error, done:true} record was enqueued
  aiOutcome          \* how the engine answered the latest send, "none" before

postVars == << postPc, reqMessage, reqTimestamp, postTranscript, timestampsToCheck,
               transcriptContext, messageToSend, sessionSends, postStatus,
               postError, postInlineError, aiOutcome >>

VARIABLES
  \* --- chatStorage: one saveMessage call
  smPc,          \* "idle" | "writing" | "backoff" | "done"
  smText,        \* message.text of the Message passed in
  smContent,     \* the local `content`
  smRetries,     \* retries
  smAttempts,    \* inserts issued by the call
  smBackoffs,    \* the delays slept, in order
  smLast,        \* how the latest insert ended
  smResult,      \* "none" | "true" | "false" | "threw"
  smInserted,    \* the content of the row the call inserted, NoContent if none
  \* --- chatStorage: saveConversation calls for one (userId, videoId)
  conversations, \* the rows of the pair in the conversations table
  nextRowId,     \* ids the table has handed out
  scPc,          \* per call: "idle" | "selecting" | "updating" | "inserting" | "done"
  scTitle,       \* per call: videoTitle
  scExisting,    \* per call: existingData.id, NoId when none
  scResult,      \* per call: value returned, NoId for null
  scStarted,     \* calls made so far
  lastWrite      \* title of the call whose write the table applied last, "none" before

storeVars == << smPc, smText, smContent, smRetries, smAttempts, smBackoffs, smLast,
                smResult, smInserted, conversations, nextRowId, scPc, scTitle,
                scExisting, scResult, scStarted, lastWrite >>

VARIABLES
  \* --- chatStorage: paginated reads of one table by one caller
  rdPc,      \* "idle" | "stored" | "read"
  rdTable,   \* "conversations" | "messages" | "none": the function called
  rdRows,    \* rows the query matches; row i is the i-th in the query's order
  rdLimit,   \* limit of the latest call
  rdPage,    \* page of the latest call
  rdData,    \* rows the latest call returned, in order
  rdSeen,    \* rows returned by the calls so far, in order
  rdFromFirst \* the calls so far asked for pages 1, 2, 3, ... with one limit

readVars == << rdPc, rdTable, rdRows, rdLimit, rdPage, rdData, rdSeen, rdFromFirst >>

VARIABLES
  \* --- transcript utilities: one getTranscriptSnippet call
  snPc,         \* "idle" | "done"
  snTranscript, \* argument transcript
  snTimestamp,  \* argument timestampMs
  snWindow,     \* argument windowMs, NoWindow when omitted
  snResult      \* the string returned, as its lines

snipVars == << snPc, snTranscript, snTimestamp, snWindow, snResult >>

VARIABLES
  \* --- transcript utilities: parseTimestamp, then formatTime of its result
  tsPc,        \* "idle" | "parsed" | "formatted"
  tsToken,     \* the string passed to parseTimestamp
  tsParsed,    \* what parseTimestamp returned: milliseconds, or NoTimestamp for null
  tsFormatted  \* what formatTime returned, as << minute digits, second digits >>

stampVars == << tsPc, tsToken, tsParsed, tsFormatted >>

VARIABLES
  \* --- GET /api/youtube/details: one request
  ytPc,        \* "idle" | "requesting" | "backoff" | "done"
  ytVideoId,   \* the request carries a videoId
  ytRetries,   \* retries
  ytOutcomes,  \* how each upstream request of the call ended, in order
  ytBackoffs,  \* the delays slept, in order
  ytStatus,    \* status of the response, 0 while none
  ytMarker     \* the `error` field of the response body, "none" when absent

ytVars == << ytPc, ytVideoId, ytRetries, ytOutcomes, ytBackoffs, ytStatus, ytMarker >>

VARIABLES
  \* --- a signed-in turn: the two fire-and-forget saveMessage calls
  tvPc,       \* "idle" | "streaming" | "finished": the turn of handleSendMessage
  svPc,       \* per message: "none" | "writing" | "backoff" | "true" | "false"
  svRetries,  \* per message: retries of its saveMessage call
  msgRows     \* the rows of the messages table, in order of creation

turnSaveVars == << tvPc, svPc, svRetries, msgRows >>

VARIABLES
  \* --- chatStorage: a message saved, then read back
  rtPc,       \* "idle" | "saved" | "read"
  rtMessage,  \* the Message passed to saveMessage
  rtRow,      \* the row inserted: content, timestamp, is_ai
  rtRead      \* the Message getConversationMessages maps the row to

tripVars == << rtPc, rtMessage, rtRow, rtRead >>

extVars == << readVars, snipVars, stampVars, ytVars, turnSaveVars, tripVars >>

vars == << chatVars, trVars, postVars, storeVars, extVars >>

\* ---------------------------------------------------------- relay helpers
ChunkRecord(t) ==
  [chunk |-> t, done |-> FALSE, fullResponse |-> Absent, error |-> Absent]

FinalRecord(full) ==
  [chunk |-> EmptyText, done |-> TRUE, fullResponse |-> full, error |-> Absent]

ErrorRecord(msg) ==
  [chunk |-> Absent, done |-> TRUE, fullResponse |-> Absent, error |-> msg]

\* new TextEncoder().encode(JSON.stringify(r)): the bytes of one record, cut
\* here into PartsPerRecord consecutive pieces; no line terminator is added.
Encode(r) == [p \in 1..PartsPerRecord |-> [rec |-> r, part |-> p, nl |-> FALSE]]

\* controller.enqueue(bytes)
Enqueue(r) ==
  /\ enqueued' = Append(enqueued, r)
  /\ wire' = wire \o Encode(r)

\* ------------------------------------------------------------ relay actions
\* route.ts 28-44: the handler answers without opening a stream
\* (missing API key, unparseable body, missing fields, or a throw before
\* the Response is built).
PostReject(status) ==
  /\ cliPc = "awaitResponse"
  /\ srvPc = "IDLE"
  /\ srvPc' = "REJECTED"
  /\ httpStatus' = status
  /\ UNCHANGED << srvStream, responseText, enqueued, closed, streamCalls, aiYielded,
                  wire, cliVars, trVars, postVars, storeVars, extVars >>

\* route.ts 174-231: new ReadableStream({start}) and the 200 Response.
PostStartStream ==
  /\ cliPc = "awaitResponse"
  /\ srvPc = "IDLE"
  /\ srvPc' = "STREAMING"
  /\ httpStatus' = 200
  /\ UNCHANGED << srvStream, responseText, enqueued, closed, streamCalls, aiYielded,
                  wire, cliVars, trVars, postVars, storeVars, extVars >>

StreamCatch_Partial(msg) ==
  /\ Enqueue([ErrorRecord(msg) EXCEPT !.fullResponse = responseText])
  /\ closed' = TRUE
  /\ srvPc' = "FAILED"

\* route.ts 209-220: the catch of start(): one error record, then close.
StreamCatch(msg) ==
  /\ Enqueue(ErrorRecord(msg))
  /\ closed' = TRUE
  /\ srvPc' = "FAILED"

\* route.ts 178-183: await chat.sendMessageStream(...) returns; responseText = ''.
OpenAiStream ==
  /\ srvPc = "STREAMING"
  /\ srvStream = "none"
  /\ streamCalls' = streamCalls + 1
  /\ srvStream' = "open"
  /\ responseText' = EmptyText
  /\ UNCHANGED << srvPc, enqueued, closed, aiYielded, httpStatus, wire, cliVars, trVars, postVars, storeVars, extVars >>

\* route.ts 178 + 209-220: chat.sendMessageStream(...) throws (k = 0).
OpenAiStreamFails(msg) ==
  /\ srvPc = "STREAMING"
  /\ srvStream = "none"
  /\ streamCalls' = streamCalls + 1
  /\ StreamCatch(msg)
  /\ UNCHANGED << srvStream, responseText, aiYielded, httpStatus, cliVars, trVars, postVars, storeVars, extVars >>

AiDelta_NoAccumulate(d) ==
  /\ srvPc = "STREAMING"
  /\ srvStream = "open"
  /\ Len(aiYielded) < MaxDeltas
  /\ aiYielded' = Append(aiYielded, d)
  /\ IF d # EmptyText
       THEN /\ Enqueue(ChunkRecord(d))
            /\ UNCHANGED responseText
       ELSE UNCHANGED << responseText, enqueued, wire >>
  /\ UNCHANGED << srvPc, srvStream, closed, streamCalls, httpStatus, cliVars, trVars, postVars, storeVars, extVars >>

\* route.ts 186-198: one iteration of the for-await loop on a delta with
\* text d; a delta whose text is empty is neither appended nor forwarded.
AiDelta(d) ==
  /\ srvPc = "STREAMING"
  /\ srvStream = "open"
  /\ Len(aiYielded) < MaxDeltas
  /\ aiYielded' = Append(aiYielded, d)
  /\ IF d # EmptyText
       THEN /\ responseText' = responseText \o d
            /\ Enqueue(ChunkRecord(d))
       ELSE UNCHANGED << responseText, enqueued, wire >>
  /\ UNCHANGED << srvPc, srvStream, closed, streamCalls, httpStatus, cliVars, trVars, postVars, storeVars, extVars >>

AiStreamEnd_NoClose ==
  /\ srvPc = "STREAMING"
  /\ srvStream = "open"
  /\ Enqueue(FinalRecord(responseText))
  /\ srvPc' = "COMPLETE"
  /\ UNCHANGED << srvStream, responseText, closed, streamCalls, aiYielded,
                  httpStatus, cliVars, trVars, postVars, storeVars, extVars >>

\* route.ts 200-208: the iterator is exhausted: final record, then close.
AiStreamEnd ==
  /\ srvPc = "STREAMING"
  /\ srvStream = "open"
  /\ Enqueue(FinalRecord(responseText))
  /\ closed' = TRUE
  /\ srvPc' = "COMPLETE"
  /\ UNCHANGED << srvStream, responseText, streamCalls, aiYielded, httpStatus,
                  cliVars, trVars, postVars, storeVars, extVars >>

\* route.ts 186 + 209-220: the iterator throws after Len(aiYielded) deltas.
AiStreamFails(msg) ==
  /\ srvPc = "STREAMING"
  /\ srvStream = "open"
  /\ StreamCatch(msg)
  /\ UNCHANGED << srvStream, responseText, streamCalls, aiYielded, httpStatus,
                  cliVars, trVars, postVars, storeVars, extVars >>

\* ----------------------------------------------------------- client helpers
UserTexts == { <<"q">> }

\* page.tsx 105-120: the two messages the page shows once the video details
\* are loaded (a user line and the assistant greeting); isStreaming is unset.
GreetingMessages ==
  << [id |-> 1, isAi |-> FALSE, text |-> <<"Tell me about">>, isStreaming |-> FALSE],
     [id |-> 2, isAi |-> TRUE,  text |-> <<"Hello!">>,        isStreaming |-> FALSE] >>

\* chunkText.split('\n').filter(Boolean): the pieces between line terminators,
\* empty pieces dropped.
RECURSIVE SplitLines(_, _)
SplitLines(units, cur) ==
  IF units = << >>
    THEN IF cur = << >> THEN << >> ELSE << cur >>
    ELSE IF Head(units).nl
           THEN (IF cur = << >> THEN << >> ELSE << cur >>) \o SplitLines(Tail(units), << >>)
           ELSE SplitLines(Tail(units), Append(cur, Head(units)))

\* JSON.parse(jsonChunk): the record when the piece is exactly the bytes of one
\* record, a SyntaxError (ok = FALSE) for a partial record or for records run together.
JsonParse(piece) ==
  IF /\ Len(piece) = PartsPerRecord
     /\ \A p \in 1..PartsPerRecord : piece[p].part = p /\ piece[p].rec = piece[1].rec
    THEN [ok |-> TRUE, value |-> piece[1].rec]
    ELSE [ok |-> FALSE, value |-> ErrorRecord(<< "SyntaxError" >>)]

Truthy(field) == field # Absent /\ field # EmptyText

\* prev.map(msg => msg.id === id ? {...msg, text} : msg)
SetMessageText(msgs, id, text) ==
  [i \in 1..Len(msgs) |-> IF msgs[i].id = id THEN [msgs[i] EXCEPT !.text = text]
                                              ELSE msgs[i]]

\* prev.map(msg => msg.id === id ? {id, isAi: true, text, isStreaming: false} : msg)
\* (also the shape {...msg, text, isStreaming: false} of the outer catch)
SetMessageFinal(msgs, id, text) ==
  [i \in 1..Len(msgs) |->
     IF msgs[i].id = id
       THEN [id |-> id, isAi |-> TRUE, text |-> text, isStreaming |-> FALSE]
       ELSE msgs[i]]

IsStreamingNow(msgs, id) ==
  \E i \in 1..Len(msgs) : msgs[i].id = id /\ msgs[i].isStreaming

\* page.tsx 298-350: the body of the for loop for one parsed record. st is
\* [acc, msgs, sawError, flips, threw].
ProcessRecord(json, st, id) ==
  LET parsed == json.value IN
  IF ~json.ok
    THEN [st EXCEPT !.threw = TRUE]
  ELSE IF Truthy(parsed.error)
    THEN [st EXCEPT !.threw = TRUE, !.sawError = TRUE]
  ELSE
    LET acc1 == IF Truthy(parsed.chunk) THEN st.acc \o parsed.chunk ELSE st.acc
        msgs1 == IF Truthy(parsed.chunk) THEN SetMessageText(st.msgs, id, acc1)
                                           ELSE st.msgs
        acc2 == IF parsed.done /\ Truthy(parsed.fullResponse)
                  THEN parsed.fullResponse ELSE acc1
    IN IF parsed.done
         THEN [st EXCEPT !.acc = acc2,
                         !.msgs = SetMessageFinal(msgs1, id, acc2),
                         !.flips = IF IsStreamingNow(msgs1, id) THEN @ + 1 ELSE @]
         ELSE [st EXCEPT !.acc = acc1, !.msgs = msgs1]

\* page.tsx 293-354: try { for (const jsonChunk of jsonChunks) ... } catch {log}:
\* a throw inside the loop abandons the remaining pieces of this read.
RECURSIVE ProcessChunks(_, _, _)
ProcessChunks(jsonChunks, st, id) ==
  IF jsonChunks = << >> \/ st.threw
    THEN st
    ELSE ProcessChunks(Tail(jsonChunks),
                       ProcessRecord(JsonParse(Head(jsonChunks)), st, id), id)

\* page.tsx 357-372: catch (error) {...} finally {setIsAiThinking(false)}
OuterCatch(err, outcome) ==
     /\ messages' = SetMessageFinal(messages, aiMessageId, SorryText(err))
     /\ flips' = IF IsStreamingNow(messages, aiMessageId) THEN flips + 1 ELSE flips
     /\ isAiThinking' = FALSE
     /\ cliPc' = "finished"
     /\ readOutcome' = outcome

\* page.tsx 229-243: the history sent with a request, made from the messages
\* the page held when the turn started: thinking and streaming messages are
\* left out, and a list that starts with a model turn gets a user turn put
\* in front.
ThinkingText == "Thinking about your question"
Includes(text, token) == \E i \in 1..Len(text) : text[i] = token

RECURSIVE FilterHistory(_)
FilterHistory(msgs) ==
  IF msgs = << >> THEN << >>
  ELSE (IF ~Includes(Head(msgs).text, ThinkingText) /\ ~Head(msgs).isStreaming
          THEN << [role |-> IF Head(msgs).isAi THEN "model" ELSE "user",
                   text |-> Head(msgs).text] >>
          ELSE << >>)
         \o FilterHistory(Tail(msgs))

DummyUserTurn == [role |-> "user", text |-> << "Tell me about this video." >>]

ChatHistoryOf_NoDummy(msgs) == FilterHistory(msgs)

ChatHistoryOf(msgs) ==
  LET history == FilterHistory(msgs)
  IN IF Len(history) > 0 /\ history[1].role = "model"
       THEN << DummyUserTurn >> \o history
       ELSE history

InputEnabled_Always == TRUE

\* ChatWindow.tsx 547, 567: input and submit are disabled while isAiThinking.
InputEnabled == ~isAiThinking

\* part_000 481-507 -> page.tsx 45-48: messages read back from storage (they
\* carry no isStreaming) replace the list before the first turn.
StoredMessageLists ==
  { << [id |-> 1, isAi |-> TRUE, text |-> << "Hi" >>, isStreaming |-> FALSE] >>,
    << [id |-> 1, isAi |-> TRUE, text |-> << ThinkingText >>, isStreaming |-> FALSE],
       [id |-> 2, isAi |-> TRUE, text |-> << "A" >>, isStreaming |-> FALSE] >> }

LoadStoredMessages(existingMessages) ==
  /\ turn = 0
  /\ messages = GreetingMessages
  /\ Len(existingMessages) > 0
  /\ messages' = existingMessages
  /\ UNCHANGED << srvVars, wire, cliPc, aiMessageId, chatHistory, accumulatedText,
                  isAiThinking, turn, readOutcome, sawError, flips, trVars, postVars, storeVars, extVars >>

\* ----------------------------------------------------------- client actions
\* page.tsx 190-261: user message and streaming placeholder appended, the
\* request sent. A new request is served by a new handler instance.
HandleSendMessage(text) ==
  /\ InputEnabled
  /\ turn < MaxTurns
  /\ chatHistory' = ChatHistoryOf(messages)
  /\ turn' = turn + 1
  /\ LET userId == 2 * (turn + 1) + 1
         aiId == 2 * (turn + 1) + 2
     IN /\ messages' = messages \o
              << [id |-> userId, isAi |-> FALSE, text |-> text, isStreaming |-> FALSE],
                 [id |-> aiId, isAi |-> TRUE, text |-> EmptyText, isStreaming |-> TRUE] >>
        /\ aiMessageId' = aiId
  /\ isAiThinking' = TRUE
  /\ cliPc' = "awaitResponse"
  /\ accumulatedText' = EmptyText
  /\ readOutcome' = "none"
  /\ sawError' = FALSE
  /\ flips' = 0
  /\ srvPc' = "IDLE"
  /\ srvStream' = "none"
  /\ responseText' = EmptyText
  /\ enqueued' = << >>
  /\ closed' = FALSE
  /\ streamCalls' = 0
  /\ aiYielded' = << >>
  /\ httpStatus' = 0
  /\ wire' = << >>
  /\ UNCHANGED << trVars, postVars, storeVars, extVars >>

\* page.tsx 263-280: the response arrives; a non-200 one is thrown to the
\* outer catch, a 200 one gets a reader.
ReceiveResponse ==
  /\ cliPc = "awaitResponse"
  /\ httpStatus # 0
  /\ IF httpStatus = 200
       THEN /\ cliPc' = "reading"
            /\ accumulatedText' = EmptyText
            /\ UNCHANGED << messages, isAiThinking, readOutcome, flips >>
       ELSE /\ OuterCatch(<< "status" >>, "non200")
            /\ UNCHANGED accumulatedText
  /\ UNCHANGED << srvVars, wire, aiMessageId, chatHistory, turn, sawError, trVars, postVars, storeVars, extVars >>

\* page.tsx 246 + 357: fetch() itself rejects (network failure).
FetchRejects ==
  /\ cliPc = "awaitResponse"
  /\ OuterCatch(<< "network" >>, "rejected")
  /\ UNCHANGED << srvVars, wire, aiMessageId, chatHistory, accumulatedText, turn, sawError, trVars, postVars, storeVars, extVars >>

\* page.tsx 284-355: reader.read() resolves with the next n units of the body
\* as one chunk, however the transport cut or joined the enqueued records.
ReadChunk(n) ==
  /\ cliPc = "reading"
  /\ n \in 1..Len(wire)
  /\ LET chunkText == SubSeq(wire, 1, n)
         st0 == [acc |-> accumulatedText, msgs |-> messages, sawError |-> sawError,
                 flips |-> flips, threw |-> FALSE]
         st == ProcessChunks(SplitLines(chunkText, << >>), st0, aiMessageId)
     IN /\ accumulatedText' = st.acc
        /\ messages' = st.msgs
        /\ sawError' = st.sawError
        /\ flips' = st.flips
  /\ wire' = SubSeq(wire, n + 1, Len(wire))
  /\ UNCHANGED << srvVars, cliPc, aiMessageId, chatHistory, isAiThinking, turn, readOutcome, trVars, postVars, storeVars, extVars >>

\* page.tsx 284-288 + 370-372: read() reports done: break, then finally.
ReadDone ==
  /\ cliPc = "reading"
  /\ wire = << >>
  /\ closed
  /\ isAiThinking' = FALSE
  /\ cliPc' = "finished"
  /\ readOutcome' = "eof"
  /\ UNCHANGED << srvVars, wire, messages, aiMessageId, chatHistory, accumulatedText, turn,
                  sawError, flips, trVars, postVars, storeVars, extVars >>

\* page.tsx 284 + 357-372: read() rejects while the body is still being
\* delivered (connection lost).
ReadRejects ==
  /\ cliPc = "reading"
  /\ ~closed \/ wire # << >>
  /\ OuterCatch(<< "network" >>, "rejected")
  /\ UNCHANGED << srvVars, wire, aiMessageId, chatHistory, accumulatedText, turn, sawError, trVars, postVars, storeVars, extVars >>


\* ============================================== transcript cache and limiter
MaxNow == 3800000
MaxCalls == 3

MAX_REQUESTS_PER_MINUTE == 10
MAX_RETRIES == 3
CACHE_DURATION == 60 * 60 * 1000
RateWindowMs == 60000
WaitBufferMs == 100
BackoffBaseMs == 500

Callers == { "c1", "c2" }
Videos == { "X" }
NoEntry == [entries |-> << >>, timestamp |-> -1]
Null == << "<null>" >>
\* What YoutubeTranscript.fetchTranscript can do: resolve with entries, resolve
\* with none, or reject with an error whose message the catch block classifies.
FetchOutcomes == { "ok", "empty", "rate", "temporary", "other" }
Entries(v) == << v >>
\* Fetch attempts already counted in the first window when the run starts
\* (earlier calls that found no captions leave the counter raised and the
\* cache empty).
InitialRequestCounts == { 0, 8 }

\* part_001 96-99: message includes 'rate' | '429' | 'too many'
IsRateLimited(outcome) == outcome = "rate"
\* part_001 101-104: message includes 'timeout' | 'network' | 'temporary'
IsTemporaryError(outcome) == outcome = "temporary"

RECURSIVE Pow2(_)
Pow2(n) == IF n = 0 THEN 1 ELSE 2 * Pow2(n - 1)

\* part_001 110: Math.pow(2, retries) * 500
BackoffDelay(retries) == Pow2(retries) * BackoffBaseMs

\* part_001 41: cached && now - cached.timestamp < CACHE_DURATION
CacheFresh(v, t) ==
  /\ transcriptCache[v] # NoEntry
  /\ t - transcriptCache[v].timestamp < CACHE_DURATION

ShouldRetry_OffByOne(outcome, retries) ==
  (IsRateLimited(outcome) \/ IsTemporaryError(outcome)) /\ retries + 1 <= MAX_RETRIES

\* part_001 70 + 106-118: a rate-limit-like or temporary failure is retried
\* while the incremented retries is below MAX_RETRIES; anything else breaks.
ShouldRetry(outcome, retries) ==
  (IsRateLimited(outcome) \/ IsTemporaryError(outcome)) /\ retries + 1 < MAX_RETRIES

\* part_001 38-77: one invocation of getTranscript(v) up to its first await, at
\* time `now`: cache check, window reset, rate check, first fetch attempt.
\* The result names the new values of what the invocation writes.
Enter(v, waitsSoFar) ==
  IF CacheFresh(v, now)
    THEN [pc |-> "done", result |-> transcriptCache[v].entries,
          count |-> requestCount, reset |-> resetTime, wakeAt |-> 0,
          admit |-> "none", waits |-> waitsSoFar, issued |-> 0]
    ELSE LET count == IF now > resetTime THEN 0 ELSE requestCount
             reset == IF now > resetTime THEN now + RateWindowMs ELSE resetTime
             timeToWait == reset - now
         IN IF count >= MAX_REQUESTS_PER_MINUTE /\ timeToWait > 0
              THEN [pc |-> "waiting", result |-> Null, count |-> count,
                    reset |-> reset, wakeAt |-> now + timeToWait + WaitBufferMs,
                    admit |-> "none", waits |-> waitsSoFar + 1, issued |-> 0]
              ELSE [pc |-> "fetching", result |-> Null, count |-> count + 1,
                    reset |-> reset, wakeAt |-> 0,
                    admit |-> IF count >= MAX_REQUESTS_PER_MINUTE THEN "at" ELSE "below", waits |-> waitsSoFar, issued |-> 1]

ApplyEnter(c, r) ==
  /\ callPc' = [callPc EXCEPT ![c] = r.pc]
  /\ callResult' = [callResult EXCEPT ![c] = r.result]
  /\ callNow' = [callNow EXCEPT ![c] = now]
  /\ callRetries' = [callRetries EXCEPT ![c] = 0]
  /\ callWakeAt' = [callWakeAt EXCEPT ![c] = r.wakeAt]
  /\ callAdmit' = [callAdmit EXCEPT ![c] = r.admit]
  /\ callWaits' = [callWaits EXCEPT ![c] = r.waits]
  /\ callAttempts' = [callAttempts EXCEPT ![c] = @ + r.issued]
  /\ requestCount' = r.count
  /\ resetTime' = r.reset

\* part_001 70-90: before the calls followed here, n fetch attempts were made
\* in the first window for videos without captions: each was counted and none
\* left a cache entry.
EarlierFetches(n) ==
  /\ callsStarted = 0
  /\ now = 0
  /\ requestCount = 0
  /\ n > 0
  /\ requestCount' = n
  /\ UNCHANGED << now, transcriptCache, resetTime, callPc, callVideo, callNow,
                  callRetries, callWakeAt, callResult, callAttempts, callLast,
                  callBackoffs, callAdmit, callWaits, callsStarted,
                  chatVars, postVars, storeVars, extVars >>

\* part_001 36: a caller calls getTranscript(v).
GetTranscript(c, v) ==
  /\ callPc[c] = "idle"
  /\ callsStarted < MaxCalls
  /\ callsStarted' = callsStarted + 1
  /\ callVideo' = [callVideo EXCEPT ![c] = v]
  /\ ApplyEnter(c, Enter(v, 0))
  /\ UNCHANGED << now, transcriptCache, callLast, callBackoffs, chatVars, postVars, storeVars, extVars >>

\* part_001 59-61: the rate-limit sleep is over: return getTranscript(videoId).
RateLimitWaitElapsed(c) ==
  /\ callPc[c] = "waiting"
  /\ now >= callWakeAt[c]
  /\ ApplyEnter(c, Enter(callVideo[c], callWaits[c]))
  /\ UNCHANGED << now, transcriptCache, callVideo, callLast,
                  callBackoffs, callsStarted, chatVars, postVars, storeVars, extVars >>

FetchReturns_CachesEmpty(c, outcome) ==
  /\ callPc[c] = "fetching"
  /\ callLast' = [callLast EXCEPT ![c] = outcome]
  /\ transcriptCache' = [transcriptCache EXCEPT ![callVideo[c]] =
       [entries |-> IF outcome = "ok" THEN Entries(callVideo[c]) ELSE << >>,
        timestamp |-> callNow[c]]]
  /\ callResult' = [callResult EXCEPT ![c] =
       IF outcome = "ok" THEN Entries(callVideo[c]) ELSE Null]
  /\ callPc' = [callPc EXCEPT ![c] = "done"]
  /\ UNCHANGED << callRetries, callWakeAt, callBackoffs, now, requestCount,
                  resetTime, callVideo, callNow, callAttempts, callAdmit,
                  callWaits, callsStarted, chatVars, postVars, storeVars, extVars >>

\* part_001 77-119: the provider answers the pending fetch attempt.
FetchReturns(c, outcome) ==
  /\ callPc[c] = "fetching"
  /\ callLast' = [callLast EXCEPT ![c] = outcome]
  /\ IF outcome = "ok"
       THEN /\ transcriptCache' = [transcriptCache EXCEPT ![callVideo[c]] =
                 [entries |-> Entries(callVideo[c]), timestamp |-> callNow[c]]]
            /\ callResult' = [callResult EXCEPT ![c] = Entries(callVideo[c])]
            /\ callPc' = [callPc EXCEPT ![c] = "done"]
            /\ UNCHANGED << callRetries, callWakeAt, callBackoffs >>
     ELSE IF outcome = "empty"
       THEN /\ callResult' = [callResult EXCEPT ![c] = Null]
            /\ callPc' = [callPc EXCEPT ![c] = "done"]
            /\ UNCHANGED << transcriptCache, callRetries, callWakeAt, callBackoffs >>
     ELSE IF IsRateLimited(outcome) \/ IsTemporaryError(outcome)
       THEN /\ callRetries' = [callRetries EXCEPT ![c] = @ + 1]
            /\ IF ShouldRetry(outcome, callRetries[c])
                 THEN /\ callPc' = [callPc EXCEPT ![c] = "backoff"]
                      /\ callWakeAt' = [callWakeAt EXCEPT ![c] =
                                          now + BackoffDelay(callRetries[c] + 1)]
                      /\ callBackoffs' = [callBackoffs EXCEPT ![c] =
                                          Append(@, BackoffDelay(callRetries[c] + 1))]
                      /\ UNCHANGED callResult
                 ELSE /\ callPc' = [callPc EXCEPT ![c] = "done"]
                      /\ callResult' = [callResult EXCEPT ![c] = Null]
                      /\ UNCHANGED << callWakeAt, callBackoffs >>
            /\ UNCHANGED transcriptCache
       ELSE /\ callResult' = [callResult EXCEPT ![c] = Null]
            /\ callPc' = [callPc EXCEPT ![c] = "done"]
            /\ UNCHANGED << transcriptCache, callRetries, callWakeAt, callBackoffs >>
  /\ UNCHANGED << now, requestCount, resetTime, callVideo, callNow, callAttempts, callAdmit, callWaits, callsStarted, chatVars, postVars, storeVars, extVars >>

\* part_001 112-113 + 70-77: the backoff sleep is over: the next attempt is
\* counted and issued.
BackoffElapsed(c) ==
  /\ callPc[c] = "backoff"
  /\ now >= callWakeAt[c]
  /\ requestCount' = requestCount + 1
  /\ callPc' = [callPc EXCEPT ![c] = "fetching"]
  /\ callAttempts' = [callAttempts EXCEPT ![c] = @ + 1]
  /\ UNCHANGED << now, transcriptCache, resetTime, callVideo, callNow, callRetries,
                  callWakeAt, callResult, callLast, callBackoffs,
                  callAdmit, callWaits, callsStarted, chatVars, postVars, storeVars, extVars >>

\* The caller has its result (part_001 43, 81, 90, 123); its slot is free for
\* a later call.
CallReturned(c) ==
  /\ callPc[c] = "done"
  /\ callPc' = [callPc EXCEPT ![c] = "idle"]
  /\ callResult' = [callResult EXCEPT ![c] = Null]
  /\ callRetries' = [callRetries EXCEPT ![c] = 0]
  /\ callNow' = [callNow EXCEPT ![c] = 0]
  /\ callWakeAt' = [callWakeAt EXCEPT ![c] = 0]
  /\ callVideo' = [callVideo EXCEPT ![c] = "X"]
  /\ callAttempts' = [callAttempts EXCEPT ![c] = 0]
  /\ callLast' = [callLast EXCEPT ![c] = "none"]
  /\ callBackoffs' = [callBackoffs EXCEPT ![c] = << >>]
  /\ callAdmit' = [callAdmit EXCEPT ![c] = "none"]
  /\ callWaits' = [callWaits EXCEPT ![c] = 0]
  /\ UNCHANGED << now, transcriptCache, requestCount, resetTime, callsStarted,
                  chatVars, postVars, storeVars, extVars >>

\* Instants at which something can change: the window boundary, a due timer,
\* the expiry of a cache entry.
TimeLandmarks ==
  { resetTime, resetTime + 1 }
    \cup { callWakeAt[c] : c \in { k \in Callers : callPc[k] \in {"waiting", "backoff"} } }
    \cup { transcriptCache[v].timestamp + CACHE_DURATION
           : v \in { w \in Videos : transcriptCache[w] # NoEntry } }

\* The clock moves on to the next such instant. Timers fire when they are due
\* and the provider answers within the clock's resolution, so the clock does
\* not pass a due timer or a pending fetch.
AdvanceTime ==
  LET later == { t \in TimeLandmarks : t > now /\ t <= MaxNow }
  IN /\ later # { }
     /\ \A c \in Callers :
          /\ callPc[c] # "fetching"
          /\ callPc[c] \in {"waiting", "backoff"} => callWakeAt[c] > now
     /\ now' = CHOOSE t \in later : \A u \in later : t <= u
     /\ UNCHANGED << transcriptCache, requestCount, resetTime, callPc, callVideo,
                     callNow, callRetries, callWakeAt, callResult, callAttempts, callLast, callBackoffs, callAdmit, callWaits,
                     callsStarted, chatVars, postVars, storeVars, extVars >>

\* ===================================== POST /api/chat: transcript context
SNIPPET_WINDOW_MS == 20000
NoTimestamp == -1

\* A message is a sequence of tokens: plain words and [MM:SS] references.
Word == [kind |-> "word", m |-> 0, s |-> 0]
Ts(m, s) == [kind |-> "ts", m |-> m, s |-> s]
RequestMessages ==
  { << >>, << Word >>, << Word, Ts(2, 10) >>, << Ts(1, 35), Word >>,
    << Ts(2, 10), Word, Ts(2, 10) >> }
\* body.timestamp: absent, or the player position in whole seconds
\* (page.tsx 143, 193, 259).
RequestTimestamps == { NoTimestamp, 0, 95, 130 }
\* A transcript as getTranscript returns it: entries with offset and duration
\* in milliseconds.
SampleTranscript ==
  << [text |-> "t0", offset |-> 0, duration |-> 4000],
     [text |-> "t95", offset |-> 95000, duration |-> 4000],
     [text |-> "t130", offset |-> 130000, duration |-> 4000] >>
TranscriptResults == { Null, SampleTranscript }
AiSendOutcomes == { "ok", "blocked", "other" }
NoMessage == [user |-> << >>, note |-> << >>]

\* part_000 518-526: formatTime(seconds) -> "MM:SS", kept as << mins, secs >>
\* (padStart pads, it never cuts).
FormatTime(seconds) ==
  IF seconds < 0 THEN << 0, 0 >> ELSE << seconds \div 60, seconds % 60 >>

\* index.ts 107-119: every [M:SS] / [MM:SS] of the message, in milliseconds.
RECURSIVE ExtractTimestamps(_)
ExtractTimestamps(message) ==
  IF message = << >> THEN << >>
  ELSE LET t == Head(message)
       IN (IF t.kind = "ts" THEN << (t.m * 60 + t.s) * 1000 >> ELSE << >>)
            \o ExtractTimestamps(Tail(message))

\* route.ts 135: [...new Set(timestampsToCheck)], first occurrences in order.
RECURSIVE Dedupe(_)
Dedupe(seq) ==
  IF seq = << >> THEN << >>
  ELSE LET front == Dedupe(SubSeq(seq, 1, Len(seq) - 1))
           last == seq[Len(seq)]
       IN IF \E i \in 1..Len(front) : front[i] = last THEN front
          ELSE Append(front, last)

InWindow_NoSpanTest(entry, timestampMs, windowMs) ==
  LET entryStart == entry.offset
      entryEnd == entry.offset + entry.duration
  IN \/ (entryStart >= timestampMs - windowMs /\ entryStart <= timestampMs + windowMs)
     \/ (entryEnd >= timestampMs - windowMs /\ entryEnd <= timestampMs + windowMs)

\* index.ts 66-76: is the entry inside the window around timestampMs
InWindow(entry, timestampMs, windowMs) ==
  LET entryStart == entry.offset
      entryEnd == entry.offset + entry.duration
  IN \/ (entryStart >= timestampMs - windowMs /\ entryStart <= timestampMs + windowMs)
     \/ (entryEnd >= timestampMs - windowMs /\ entryEnd <= timestampMs + windowMs)
     \/ (entryStart <= timestampMs - windowMs /\ entryEnd >= timestampMs + windowMs)

\* index.ts 66-76: transcript.filter(...) with an explicit windowMs
RECURSIVE FilterWindow(_, _, _)
FilterWindow(transcript, timestampMs, windowMs) ==
  IF transcript = << >> THEN << >>
  ELSE (IF InWindow(Head(transcript), timestampMs, windowMs)
          THEN << Head(transcript) >> ELSE << >>)
         \o FilterWindow(Tail(transcript), timestampMs, windowMs)

FilterEntries(transcript, timestampMs) ==
  FilterWindow(transcript, timestampMs, SNIPPET_WINDOW_MS)

\* index.ts 81-88: the lines "[MM:SS] text" of the entries, << >> for ''.
SnippetLines(relevantEntries) ==
  [i \in 1..Len(relevantEntries) |->
     [stamp |-> << (relevantEntries[i].offset \div 1000) \div 60,
                   (relevantEntries[i].offset \div 1000) % 60 >>,
      text |-> relevantEntries[i].text]]

\* index.ts 59-89: getTranscriptSnippet(transcript, timestampMs): the lines
\* "[MM:SS] text" of the entries in the window, << >> for ''.
GetTranscriptSnippet(transcript, timestampMs) ==
  SnippetLines(FilterEntries(transcript, timestampMs))

\* index.ts 59-89: getTranscriptSnippet(transcript, timestampMs, windowMs)
GetTranscriptSnippetWindow(transcript, timestampMs, windowMs) ==
  IF Len(transcript) = 0 THEN << >>
  ELSE SnippetLines(FilterWindow(transcript, timestampMs, windowMs))

\* route.ts 119-130: the explicit timestamp as received, then the mentioned ones
TimestampsToCheck(timestamp, userMessage) ==
  (IF timestamp # NoTimestamp THEN << timestamp >> ELSE << >>)
    \o ExtractTimestamps(userMessage)

\* route.ts 138-142: one block per unique timestamp that has a snippet
RECURSIVE SnippetBlocks(_, _)
SnippetBlocks(transcript, uniqueTimestamps) ==
  IF uniqueTimestamps = << >> THEN << >>
  ELSE LET ts == Head(uniqueTimestamps)
           snippet == GetTranscriptSnippet(transcript, ts)
       IN (IF snippet # << >>
             THEN << [header |-> FormatTime(ts), lines |-> snippet] >>
             ELSE << >>)
            \o SnippetBlocks(transcript, Tail(uniqueTimestamps))

\* route.ts 133-147
TranscriptContext(transcript, toCheck) ==
  IF transcript # Null /\ toCheck # << >>
    THEN SnippetBlocks(transcript, Dedupe(toCheck))
    ELSE << >>

\* route.ts 149-161: the user text, with the timestamp note when a timestamp
\* came with the request
MessageToSend(userMessage, timestamp) ==
  [user |-> userMessage,
   note |-> IF timestamp # NoTimestamp THEN << FormatTime(timestamp) >> ELSE << >>]

\* route.ts 36-37: the body of a request arrives.
ReceiveRequest(userMessage, timestamp) ==
  /\ postPc = "IDLE"
  /\ postPc' = "RECEIVED"
  /\ reqMessage' = userMessage
  /\ reqTimestamp' = timestamp
  /\ UNCHANGED << postTranscript, timestampsToCheck, transcriptContext, messageToSend,
                  sessionSends, postStatus, postError, postInlineError, aiOutcome,
                  chatVars, trVars, storeVars, extVars >>

\* route.ts 39-44: !userMessage -> 400 before anything is sent.
RejectMissingFields ==
  /\ postPc = "RECEIVED"
  /\ reqMessage = << >>
  /\ postPc' = "REJECTED"
  /\ postStatus' = 400
  /\ postError' = "Missing required fields"
  /\ UNCHANGED << reqMessage, reqTimestamp, postTranscript, timestampsToCheck,
                  transcriptContext, messageToSend, sessionSends, postInlineError,
                  aiOutcome, chatVars, trVars, storeVars, extVars >>

AwaitTranscript_ThrowsOnNull(transcript) ==
  /\ postPc = "RECEIVED"
  /\ reqMessage # << >>
  /\ postTranscript' = transcript
  /\ IF transcript = Null
       THEN /\ postPc' = "REJECTED"
            /\ postStatus' = 500
            /\ postError' = "Failed to get response from AI assistant."
            /\ UNCHANGED << timestampsToCheck, transcriptContext, messageToSend >>
       ELSE /\ postPc' = "ASSEMBLED"
            /\ timestampsToCheck' = TimestampsToCheck(reqTimestamp, reqMessage)
            /\ transcriptContext' =
                 TranscriptContext(transcript, TimestampsToCheck(reqTimestamp, reqMessage))
            /\ messageToSend' = MessageToSend(reqMessage, reqTimestamp)
            /\ UNCHANGED << postStatus, postError >>
  /\ UNCHANGED << reqMessage, reqTimestamp, sessionSends, postInlineError, aiOutcome,
                  chatVars, trVars, storeVars, extVars >>

\* route.ts 115-161: getTranscript resolves (it never rejects) and the context
\* and the message are put together.
AwaitTranscript(transcript) ==
  /\ postPc = "RECEIVED"
  /\ reqMessage # << >>
  /\ postPc' = "ASSEMBLED"
  /\ postTranscript' = transcript
  /\ timestampsToCheck' = TimestampsToCheck(reqTimestamp, reqMessage)
  /\ transcriptContext' =
       TranscriptContext(transcript, TimestampsToCheck(reqTimestamp, reqMessage))
  /\ messageToSend' = MessageToSend(reqMessage, reqTimestamp)
  /\ UNCHANGED << reqMessage, reqTimestamp, sessionSends, postStatus, postError,
                  postInlineError, aiOutcome, chatVars, trVars, storeVars, extVars >>

\* route.ts 233-251: the outer catch turns a throw into a JSON error Response.
OuterCatchStatus(outcome) == IF outcome = "blocked" THEN 400 ELSE 500
OuterCatchMessage(outcome) ==
  IF outcome = "blocked" THEN "The response was blocked due to safety settings."
  ELSE "Failed to get response from AI assistant."

\* route.ts 164-171: with a transcript context, await chat.sendMessage(context);
\* a throw of it lands in the outer catch.
SendContext(outcome) ==
  /\ postPc = "ASSEMBLED"
  /\ IF transcriptContext # << >>
       THEN /\ sessionSends' = Append(sessionSends,
                 [kind |-> "sendMessage", context |-> transcriptContext,
                  message |-> NoMessage])
            /\ aiOutcome' = outcome
            /\ IF outcome = "ok"
                 THEN /\ postPc' = "READY"
                      /\ UNCHANGED << postStatus, postError >>
                 ELSE /\ postPc' = "REJECTED"
                      /\ postStatus' = OuterCatchStatus(outcome)
                      /\ postError' = OuterCatchMessage(outcome)
       ELSE /\ outcome = "ok"
            /\ postPc' = "READY"
            /\ UNCHANGED << sessionSends, aiOutcome, postStatus, postError >>
  /\ UNCHANGED << reqMessage, reqTimestamp, postTranscript, timestampsToCheck,
                  transcriptContext, messageToSend, postInlineError, chatVars, trVars, storeVars, extVars >>

\* route.ts 174-231: the stream is created, start() calls
\* chat.sendMessageStream(messageToSend) and the 200 Response is returned; a
\* throw of the streaming send is caught inside start() (209-220) and becomes
\* an inline error record.
StartStreamingSend(outcome) ==
  /\ postPc = "READY"
  /\ sessionSends' = Append(sessionSends,
       [kind |-> "sendMessageStream", context |-> << >>, message |-> messageToSend])
  /\ aiOutcome' = outcome
  /\ postStatus' = 200
  /\ postInlineError' = (outcome # "ok")
  /\ postPc' = IF outcome = "ok" THEN "STREAMING" ELSE "FAILED"
  /\ UNCHANGED << reqMessage, reqTimestamp, postTranscript, timestampsToCheck,
                  transcriptContext, messageToSend, postError, chatVars, trVars, storeVars, extVars >>

\* The handler instance is over; the next request gets a new one.
PostFinished ==
  /\ postPc \in {"STREAMING", "FAILED", "REJECTED"}
  /\ postPc' = "IDLE"
  /\ reqMessage' = << >>
  /\ reqTimestamp' = NoTimestamp
  /\ postTranscript' = Null
  /\ timestampsToCheck' = << >>
  /\ transcriptContext' = << >>
  /\ messageToSend' = NoMessage
  /\ sessionSends' = << >>
  /\ postStatus' = 0
  /\ postError' = "none"
  /\ postInlineError' = FALSE
  /\ aiOutcome' = "none"
  /\ UNCHANGED << chatVars, trVars, storeVars, extVars >>

\* ============================================ chatStorage: saveMessage
MAX_CONTENT_SIZE == 1024 * 8
SAVE_MAX_RETRIES == 3
SaveBackoffBaseMs == 500

\* A string is kept as the part of the message text it holds (its first
\* `upto` characters) and whether '...' was appended.
Str(n) == [upto |-> n, dots |-> FALSE]
NoContent == [upto |-> -1, dots |-> FALSE]
Length(str) == str.upto + (IF str.dots THEN 3 ELSE 0)
\* str.substring(0, k) of a string without the marker
Substring0(str, k) == [str EXCEPT !.upto = IF k < str.upto THEN k ELSE str.upto]
AppendDots(str) == [str EXCEPT !.dots = TRUE]

MessageLengths == { 0, 5, 8189, 8191, 8192, 8193, 9000 }

\* What one insert can end in: success; an {error} carrying a rate-limit
\* signature; an error whose message names a network problem or a timeout;
\* any other error. An error is an Error instance or a plain object, as the
\* client library builds it.
WriteOutcomes ==
  { "ok", "rate_error", "rate_plain", "network_error", "network_plain", "other" }

\* part_000 315: error.message?.includes('rate') || code 429 / too_many_requests
IsReturnedRateLimit(o) == o \in { "rate_error", "rate_plain" }
\* part_000 335-338: err instanceof Error && message has network|timeout|rate
IsCaughtRetryable(o) == o \in { "rate_error", "network_error" }

Truncate_KeepsWhole(content) ==
  IF Length(content) > MAX_CONTENT_SIZE
    THEN AppendDots(Substring0(content, MAX_CONTENT_SIZE))
    ELSE content

\* part_000 292-295
Truncate(content) ==
  IF Length(content) > MAX_CONTENT_SIZE
    THEN AppendDots(Substring0(content, MAX_CONTENT_SIZE - 3))
    ELSE content

\* part_000 319, 341: Math.pow(2, retries) * 500
SaveDelay(retries) == Pow2(retries) * SaveBackoffBaseMs

\* part_000 271-311: saveMessage(conversationId, message) up to its first insert.
SaveMessage(len) ==
  /\ smPc = "idle"
  /\ smText' = Str(len)
  /\ smContent' = Truncate(Str(len))
  /\ smRetries' = 0
  /\ smAttempts' = 1
  /\ smPc' = "writing"
  /\ UNCHANGED << smBackoffs, smLast, smResult, smInserted, conversations, nextRowId,
                  scPc, scTitle, scExisting, scResult, scStarted, lastWrite,
                  chatVars, trVars, postVars, extVars >>

\* part_000 304-348: the insert ends; the error, if any, is classified and the
\* loop goes on after a backoff or is left.
InsertReturns(o) ==
  /\ smPc = "writing"
  /\ smLast' = o
  /\ IF o = "ok"
       THEN /\ smInserted' = smContent
            /\ smResult' = "true"
            /\ smPc' = "done"
            /\ UNCHANGED << smRetries, smBackoffs >>
     ELSE IF IsReturnedRateLimit(o) /\ smRetries + 1 <= SAVE_MAX_RETRIES
       THEN \* 316-322
            /\ smRetries' = smRetries + 1
            /\ smBackoffs' = Append(smBackoffs, SaveDelay(smRetries + 1))
            /\ smPc' = "backoff"
            /\ UNCHANGED << smInserted, smResult >>
     ELSE LET thrownWith == IF IsReturnedRateLimit(o) THEN smRetries + 1 ELSE smRetries
              \* 332-348: the error is thrown (327) and caught
          IN IF IsCaughtRetryable(o) /\ thrownWith + 1 <= SAVE_MAX_RETRIES
               THEN /\ smRetries' = thrownWith + 1
                    /\ smBackoffs' = Append(smBackoffs, SaveDelay(thrownWith + 1))
                    /\ smPc' = "backoff"
                    /\ UNCHANGED << smInserted, smResult >>
               ELSE /\ smRetries' = IF IsCaughtRetryable(o) THEN thrownWith + 1
                                                             ELSE thrownWith
                    /\ smResult' = "false"
                    /\ smPc' = "done"
                    /\ UNCHANGED << smInserted, smBackoffs >>
  /\ UNCHANGED << smText, smContent, smAttempts, conversations, nextRowId, scPc,
                  scTitle, scExisting, scResult, scStarted, lastWrite,
                  chatVars, trVars, postVars, extVars >>

\* part_000 321-322, 343-344 -> 302-304: the sleep is over, the next insert
\* is issued.
SaveBackoffElapsed ==
  /\ smPc = "backoff"
  /\ smAttempts' = smAttempts + 1
  /\ smPc' = "writing"
  /\ UNCHANGED << smText, smContent, smRetries, smBackoffs, smLast, smResult,
                  smInserted, conversations, nextRowId, scPc, scTitle, scExisting,
                  scResult, scStarted, lastWrite, chatVars, trVars, postVars, extVars >>

\* part_000 331, 356: the caller has the boolean.
SaveReturned ==
  /\ smPc = "done"
  /\ smPc' = "idle"
  /\ smText' = NoContent
  /\ smContent' = NoContent
  /\ smRetries' = 0
  /\ smAttempts' = 0
  /\ smBackoffs' = << >>
  /\ smLast' = "none"
  /\ smResult' = "none"
  /\ smInserted' = NoContent
  /\ UNCHANGED << conversations, nextRowId, scPc, scTitle, scExisting, scResult,
                  scStarted, lastWrite, chatVars, trVars, postVars, extVars >>

\* ======================================== chatStorage: saveConversation
MaxSaves == 3

SaveCallers == { "s1", "s2" }
Titles == { "t1", "t2" }
NoId == 0
DbResults == { "ok", "error" }

\* part_000 195-204: saveConversation(userId, videoId, videoTitle) issues the
\* select of the pair's row.
SaveConversation(c, title) ==
  /\ scPc[c] = "idle"
  /\ scStarted < MaxSaves
  /\ scStarted' = scStarted + 1
  /\ scPc' = [scPc EXCEPT ![c] = "selecting"]
  /\ scTitle' = [scTitle EXCEPT ![c] = title]
  /\ UNCHANGED << smPc, smText, smContent, smRetries, smAttempts, smBackoffs, smLast,
                  smResult, smInserted, conversations, nextRowId, scExisting, scResult,
                  lastWrite, chatVars, trVars, postVars, extVars >>

\* part_000 199-211, 248-251: .maybeSingle() answers: an error (also when the
\* pair has more than one row) makes the call return null; otherwise the row
\* found, if any, decides between update and insert.
SelectReturns(c, res) ==
  /\ scPc[c] = "selecting"
  /\ IF res = "error" \/ Len(conversations) > 1
       THEN /\ scPc' = [scPc EXCEPT ![c] = "done"]
            /\ scResult' = [scResult EXCEPT ![c] = NoId]
            /\ UNCHANGED scExisting
       ELSE /\ scExisting' = [scExisting EXCEPT ![c] =
                 IF conversations = << >> THEN NoId ELSE conversations[1].id]
            /\ scPc' = [scPc EXCEPT ![c] =
                 IF conversations = << >> THEN "inserting" ELSE "updating"]
            /\ UNCHANGED scResult
  /\ UNCHANGED << smPc, smText, smContent, smRetries, smAttempts, smBackoffs, smLast,
                  smResult, smInserted, conversations, nextRowId, scTitle, scStarted,
                  lastWrite, chatVars, trVars, postVars, extVars >>

UpdateReturns_KeepsTitle(c, res) ==
  /\ scPc[c] = "updating"
  /\ scPc' = [scPc EXCEPT ![c] = "done"]
  /\ scResult' = [scResult EXCEPT ![c] = IF res = "ok" THEN scExisting[c] ELSE NoId]
  /\ lastWrite' = IF res = "ok" THEN scTitle[c] ELSE lastWrite
  /\ UNCHANGED << smPc, smText, smContent, smRetries, smAttempts, smBackoffs, smLast,
                  smResult, smInserted, conversations, nextRowId, scTitle, scExisting,
                  scStarted, chatVars, trVars, postVars, extVars >>

\* part_000 211-227: update({video_title, last_updated_at}).eq('id', existingData.id)
UpdateReturns(c, res) ==
  /\ scPc[c] = "updating"
  /\ scPc' = [scPc EXCEPT ![c] = "done"]
  /\ IF res = "ok"
       THEN /\ conversations' =
                 [i \in 1..Len(conversations) |->
                    IF conversations[i].id = scExisting[c]
                      THEN [conversations[i] EXCEPT !.title = scTitle[c]]
                      ELSE conversations[i]]
            /\ scResult' = [scResult EXCEPT ![c] = scExisting[c]]
            /\ lastWrite' = scTitle[c]
       ELSE /\ scResult' = [scResult EXCEPT ![c] = NoId]
            /\ UNCHANGED << conversations, lastWrite >>
  /\ UNCHANGED << smPc, smText, smContent, smRetries, smAttempts, smBackoffs, smLast,
                  smResult, smInserted, nextRowId, scTitle, scExisting, scStarted,
                  chatVars, trVars, postVars, extVars >>

\* part_000 228-247 with part_013 45-54: insert({user_id, video_id, video_title});
\* the table's UNIQUE(user_id, video_id) refuses a second row for the pair.
ConversationInsertReturns(c, res) ==
  /\ scPc[c] = "inserting"
  /\ scPc' = [scPc EXCEPT ![c] = "done"]
  /\ IF res = "ok" /\ conversations = << >>
       THEN /\ conversations' = << [id |-> nextRowId + 1, title |-> scTitle[c]] >>
            /\ nextRowId' = nextRowId + 1
            /\ scResult' = [scResult EXCEPT ![c] = nextRowId + 1]
            /\ lastWrite' = scTitle[c]
       ELSE /\ scResult' = [scResult EXCEPT ![c] = NoId]
            /\ UNCHANGED << conversations, nextRowId, lastWrite >>
  /\ UNCHANGED << smPc, smText, smContent, smRetries, smAttempts, smBackoffs, smLast,
                  smResult, smInserted, scTitle, scExisting, scStarted,
                  chatVars, trVars, postVars, extVars >>

\* part_000 227, 246, 250: the caller has the id or null.
SaveConversationReturned(c) ==
  /\ scPc[c] = "done"
  /\ scPc' = [scPc EXCEPT ![c] = "idle"]
  /\ scTitle' = [scTitle EXCEPT ![c] = "none"]
  /\ scExisting' = [scExisting EXCEPT ![c] = NoId]
  /\ scResult' = [scResult EXCEPT ![c] = NoId]
  /\ UNCHANGED << smPc, smText, smContent, smRetries, smAttempts, smBackoffs, smLast,
                  smResult, smInserted, conversations, nextRowId, scStarted, lastWrite,
                  chatVars, trVars, postVars, extVars >>

\* ------------------------------------------------- chatStorage: paged reads
ConversationHardMax == 100
MessageHardMax == 200

\* Inputs: how many rows the query matches, and the caller's limit and page.
StoredRowCounts == { 0, 3, 150, 250 }
ReadLimits == { 0, 2, 100, 150, 200, 250 }
ReadPages == { 0, 1, 2, 3 }

Min(a, b) == IF a < b THEN a ELSE b

\* .range(from, to) over `count` ordered rows: the rows at the zero-based
\* positions from..to that exist.  A negative offset or a negative limit
\* makes the query fail, and the function returns [] on error.
Range(count, from, to) ==
  IF from < 0 \/ to < from - 1 THEN << >>
  ELSE LET last == Min(to + 1, count)
       IN  IF last <= from THEN << >>
           ELSE [i \in 1..(last - from) |-> from + i]

ConversationSafeLimit_Unclamped(limit) == limit

\* const safeLimit = Math.min(limit, 100)
ConversationSafeLimit(limit) == Min(limit, ConversationHardMax)

\* const safeLimit = Math.min(limit, 200)
MessageSafeLimit(limit) == Min(limit, MessageHardMax)

\* const offset = (page - 1) * limit
PageOffset(limit, page) == (page - 1) * limit

UserConversationsPage(count, limit, page) ==
  Range(count, PageOffset(limit, page),
        PageOffset(limit, page) + ConversationSafeLimit(limit) - 1)

ConversationMessagesPage(count, limit, page) ==
  Range(count, PageOffset(limit, page),
        PageOffset(limit, page) + MessageSafeLimit(limit) - 1)

\* The table holds `count` rows for the user (or the conversation).
StoreRows(count) ==
  /\ rdPc = "idle"
  /\ rdPc' = "stored"
  /\ rdRows' = count
  /\ UNCHANGED << rdTable, rdLimit, rdPage, rdData, rdSeen, rdFromFirst >>
  /\ UNCHANGED << chatVars, trVars, postVars, storeVars, snipVars, stampVars, ytVars, turnSaveVars, tripVars >>

\* A caller either makes its first call, or asks for the page after the one it
\* read last, with the same limit, as long as that one was not empty.
MayRead(table, limit, page) ==
  \/ rdPc = "stored"
  \/ /\ rdPc = "read"
     /\ rdTable = table
     /\ rdLimit = limit
     /\ rdPage + 1 = page
     /\ rdData # << >>

Reads(table, limit, page, data) ==
  /\ rdPc' = "read"
  /\ rdTable' = table
  /\ rdLimit' = limit
  /\ rdPage' = page
  /\ rdData' = data
  /\ rdSeen' = rdSeen \o data
  /\ rdFromFirst' = IF rdPc = "stored" THEN page = 1 ELSE rdFromFirst
  /\ UNCHANGED rdRows
  /\ UNCHANGED << chatVars, trVars, postVars, storeVars, snipVars, stampVars, ytVars, turnSaveVars, tripVars >>

GetUserConversations(limit, page) ==
  /\ MayRead("conversations", limit, page)
  /\ Reads("conversations", limit, page, UserConversationsPage(rdRows, limit, page))

GetConversationMessages(limit, page) ==
  /\ MayRead("messages", limit, page)
  /\ Reads("messages", limit, page, ConversationMessagesPage(rdRows, limit, page))

\* ------------------------------------------- getTranscriptSnippet, as called
NoWindow == -1
DocumentedHalfWindowMs == 10000

\* Inputs: entries on a 5 s grid, some of length 0 and some longer than any
\* window; the text of an entry is its position in the transcript.
SnippetOffsets == { 0, 5000, 10000, 20000, 40000, 45000, 50000 }
SnippetDurations == { 0, 5000, 60000 }
SnippetTimestamps == { 0, 25000, 30000 }
SnippetWindows == { NoWindow, 0, 5000, 10000 }
SnippetEntries(i) ==
  { [text |-> i, offset |-> o, duration |-> d] : o \in SnippetOffsets, d \in SnippetDurations }
SnippetTranscripts ==
  { << >> } \cup { << e >> : e \in SnippetEntries(1) }
    \cup { << e, f >> : e \in SnippetEntries(1), f \in SnippetEntries(2) }

CallGetTranscriptSnippet(transcript, timestampMs, windowMs) ==
  /\ snPc = "idle"
  /\ snPc' = "done"
  /\ snTranscript' = transcript
  /\ snTimestamp' = timestampMs
  /\ snWindow' = windowMs
  /\ snResult' = GetTranscriptSnippetWindow(transcript, timestampMs,
                   IF windowMs = NoWindow THEN SNIPPET_WINDOW_MS ELSE windowMs)
  /\ UNCHANGED << chatVars, trVars, postVars, storeVars, readVars, stampVars, ytVars, turnSaveVars, tripVars >>

SnippetReturned ==
  /\ snPc = "done"
  /\ snPc' = "idle"
  /\ snTranscript' = << >>
  /\ snTimestamp' = 0
  /\ snWindow' = NoWindow
  /\ snResult' = << >>
  /\ UNCHANGED << chatVars, trVars, postVars, storeVars, readVars, stampVars, ytVars, turnSaveVars, tripVars >>

\* ------------------------------------------------ parseTimestamp, formatTime
\* A string "[m:s]" is kept as the digits between the bracket and the colon
\* and the digits between the colon and the closing bracket.
Digit == { 0, 1, 5, 6, 9 }
MinuteDigits == { << a >> : a \in Digit } \cup { << a, b >> : a \in Digit, b \in Digit }
SecondDigits == { << a, b >> : a \in Digit, b \in Digit }
TimestampTokens ==
  { [m |-> m, s |-> s] : m \in MinuteDigits, s \in SecondDigits }
    \cup { [m |-> << 1, 2, 3 >>, s |-> << 4, 5 >>], [m |-> << 1 >>, s |-> << 5 >>],
           [m |-> << >>, s |-> << 3, 0 >>], [m |-> << 1 >>, s |-> << 3, 0, 0 >>] }
NoDigits == << << >>, << >> >>

\* parseInt(digits, 10)
RECURSIVE ParseInt(_)
ParseInt(digits) ==
  IF digits = << >> THEN 0
  ELSE 10 * ParseInt(SubSeq(digits, 1, Len(digits) - 1)) + digits[Len(digits)]

\* n.toString() for an integer n >= 0
RECURSIVE ToDigits(_)
ToDigits(n) == IF n < 10 THEN << n >> ELSE Append(ToDigits(n \div 10), n % 10)

\* str.padStart(2, '0')
PadStart2(digits) == IF Len(digits) < 2 THEN << 0 >> \o digits ELSE digits

\* /\[(\d{1,2}):(\d{2})\]/
MatchesTimestamp(token) == Len(token.m) \in 1..2 /\ Len(token.s) = 2

\* index.ts 94-102
ParseTimestampOf(token) ==
  IF ~MatchesTimestamp(token) THEN NoTimestamp
  ELSE (ParseInt(token.m) * 60 + ParseInt(token.s)) * 1000

\* part_000 518-526, with the two padded digit strings of the result
FormatTimeDigits(seconds) ==
  LET t == FormatTime(seconds)
  IN << PadStart2(ToDigits(t[1])), PadStart2(ToDigits(t[2])) >>

ParseTimestamp(token) ==
  /\ tsPc = "idle"
  /\ tsPc' = "parsed"
  /\ tsToken' = token
  /\ tsParsed' = ParseTimestampOf(token)
  /\ UNCHANGED tsFormatted
  /\ UNCHANGED << chatVars, trVars, postVars, storeVars, readVars, snipVars, ytVars, turnSaveVars, tripVars >>

\* formatTime(parseTimestamp(s) / 1000), for a parse that did not return null
FormatParsed ==
  /\ tsPc = "parsed"
  /\ tsParsed # NoTimestamp
  /\ tsPc' = "formatted"
  /\ tsFormatted' = FormatTimeDigits(tsParsed \div 1000)
  /\ UNCHANGED << tsToken, tsParsed >>
  /\ UNCHANGED << chatVars, trVars, postVars, storeVars, readVars, snipVars, ytVars, turnSaveVars, tripVars >>

StampReturned ==
  /\ tsPc \in { "parsed", "formatted" }
  /\ tsPc' = "idle"
  /\ tsToken' = [m |-> << >>, s |-> << >>]
  /\ tsParsed' = NoTimestamp
  /\ tsFormatted' = NoDigits
  /\ UNCHANGED << chatVars, trVars, postVars, storeVars, readVars, snipVars, ytVars, turnSaveVars, tripVars >>

\* --------------------------------------------------- GET /api/youtube/details
DETAILS_MAX_RETRIES == 3
DetailsBackoffBaseMs == 100

\* How an upstream request can end: a 200 with or without items, or an error
\* with the status of its response (0: no response) and what its message holds.
UpstreamOutcomes ==
  { [kind |-> "items",   status |-> 200, quota |-> FALSE, rate |-> FALSE],
    [kind |-> "empty",   status |-> 200, quota |-> FALSE, rate |-> FALSE],
    [kind |-> "error",   status |-> 403, quota |-> TRUE,  rate |-> FALSE],
    [kind |-> "error",   status |-> 403, quota |-> TRUE,  rate |-> TRUE],
    [kind |-> "error",   status |-> 403, quota |-> FALSE, rate |-> TRUE],
    [kind |-> "error",   status |-> 403, quota |-> FALSE, rate |-> FALSE],
    [kind |-> "error",   status |-> 429, quota |-> FALSE, rate |-> FALSE],
    [kind |-> "error",   status |-> 503, quota |-> FALSE, rate |-> FALSE],
    [kind |-> "error",   status |-> 400, quota |-> FALSE, rate |-> FALSE],
    [kind |-> "error",   status |-> 0,   quota |-> FALSE, rate |-> FALSE] }

\* const status = axiosError?.response?.status || 500
ErrorStatus(o) == IF o.status = 0 THEN 500 ELSE o.status

IsQuotaExceeded(o) == ErrorStatus(o) = 403 /\ o.quota

IsDetailsRateLimited(o) == ErrorStatus(o) = 429 \/ (ErrorStatus(o) = 403 /\ o.rate)

DetailsRetryable(o) == IsDetailsRateLimited(o) \/ ErrorStatus(o) >= 500

MayRequest_OneMore(retries) == retries <= DETAILS_MAX_RETRIES

\* while (retries < MAX_RETRIES), and if (retries < MAX_RETRIES) before the delay
MayRequest(retries) == retries < DETAILS_MAX_RETRIES

DetailsDelay(retries) == Pow2(retries) * DetailsBackoffBaseMs

DetailsRespond(status, marker) ==
  /\ ytPc' = "done"
  /\ ytStatus' = status
  /\ ytMarker' = marker

\* route.ts 6-33: the request arrives, with or without videoId and API key
DetailsGet(hasVideoId, hasApiKey) ==
  /\ ytPc = "idle"
  /\ ytVideoId' = hasVideoId
  /\ ytRetries' = 0
  /\ ytOutcomes' = << >>
  /\ ytBackoffs' = << >>
  /\ IF ~hasVideoId THEN DetailsRespond(400, "none")
     ELSE IF ~hasApiKey THEN DetailsRespond(500, "none")
     ELSE IF MayRequest(0) THEN ytPc' = "requesting" /\ ytStatus' = 0 /\ ytMarker' = "none"
     ELSE DetailsRespond(500, "none")
  /\ UNCHANGED << chatVars, trVars, postVars, storeVars, readVars, snipVars, stampVars, turnSaveVars, tripVars >>

\* route.ts 35-119: axios.get settles; the try body or the catch runs, up to
\* the next await or the response
UpstreamSettles(o) ==
  /\ ytPc = "requesting"
  /\ ytOutcomes' = Append(ytOutcomes, o)
  /\ UNCHANGED ytVideoId
  /\ IF o.kind = "items" THEN
       DetailsRespond(200, "none") /\ UNCHANGED << ytRetries, ytBackoffs >>
     ELSE IF o.kind = "empty" THEN
       DetailsRespond(404, "none") /\ UNCHANGED << ytRetries, ytBackoffs >>
     ELSE IF IsQuotaExceeded(o) THEN
       DetailsRespond(429, "QUOTA_EXCEEDED") /\ UNCHANGED << ytRetries, ytBackoffs >>
     ELSE IF DetailsRetryable(o) THEN
       /\ ytRetries' = ytRetries + 1
       /\ IF MayRequest(ytRetries + 1)
            THEN /\ ytPc' = "backoff"
                 /\ ytBackoffs' = Append(ytBackoffs, DetailsDelay(ytRetries + 1))
                 /\ UNCHANGED << ytStatus, ytMarker >>
            ELSE /\ DetailsRespond(ErrorStatus(o), "none")
                 /\ UNCHANGED ytBackoffs
     ELSE
       DetailsRespond(ErrorStatus(o), "none") /\ UNCHANGED << ytRetries, ytBackoffs >>
  /\ UNCHANGED << chatVars, trVars, postVars, storeVars, readVars, snipVars, stampVars, turnSaveVars, tripVars >>

\* route.ts 98-99: the delay is over, `continue`
DetailsBackoffElapsed ==
  /\ ytPc = "backoff"
  /\ ytPc' = "requesting"
  /\ UNCHANGED << ytVideoId, ytRetries, ytOutcomes, ytBackoffs, ytStatus, ytMarker >>
  /\ UNCHANGED << chatVars, trVars, postVars, storeVars, readVars, snipVars, stampVars, turnSaveVars, tripVars >>

\* The response is sent; the route can serve the next request.
DetailsAnswered ==
  /\ ytPc = "done"
  /\ ytPc' = "idle"
  /\ ytVideoId' = FALSE
  /\ ytRetries' = 0
  /\ ytOutcomes' = << >>
  /\ ytBackoffs' = << >>
  /\ ytStatus' = 0
  /\ ytMarker' = "none"
  /\ UNCHANGED << chatVars, trVars, postVars, storeVars, readVars, snipVars, stampVars, turnSaveVars, tripVars >>

\* ------------------------------------------ the saves of one signed-in turn
TurnMessages == { "user", "ai" }

\* part_000 312-348: what saveMessage does when an insert ended with o after
\* `retries` retries: return, or sleep and insert again.
AfterInsert(o, retries) ==
  IF o = "ok" THEN [pc |-> "true", retries |-> retries]
  ELSE IF IsReturnedRateLimit(o) /\ retries + 1 <= SAVE_MAX_RETRIES
    THEN [pc |-> "backoff", retries |-> retries + 1]
  ELSE LET thrownWith == IF IsReturnedRateLimit(o) THEN retries + 1 ELSE retries
       IN IF IsCaughtRetryable(o) /\ thrownWith + 1 <= SAVE_MAX_RETRIES
            THEN [pc |-> "backoff", retries |-> thrownWith + 1]
            ELSE [pc |-> "false",
                  retries |-> IF IsCaughtRetryable(o) THEN thrownWith + 1 ELSE thrownWith]

\* page.tsx 195-212: the user message is shown and its save is started, not
\* awaited; the request to /api/chat follows.
SendAndSaveUserMessage ==
  /\ tvPc = "idle"
  /\ tvPc' = "streaming"
  /\ svPc' = [svPc EXCEPT !["user"] = "writing"]
  /\ UNCHANGED << svRetries, msgRows >>
  /\ UNCHANGED << chatVars, trVars, postVars, storeVars, readVars, snipVars, stampVars, ytVars, tripVars >>

\* page.tsx 322-350: the done record arrives; the final AI message is saved,
\* not awaited.
DoneRecordSavesAiMessage ==
  /\ tvPc = "streaming"
  /\ tvPc' = "finished"
  /\ svPc' = [svPc EXCEPT !["ai"] = "writing"]
  /\ UNCHANGED << svRetries, msgRows >>
  /\ UNCHANGED << chatVars, trVars, postVars, storeVars, readVars, snipVars, stampVars, ytVars, tripVars >>

\* part_000 304-348: the pending insert of message k ends with o; on success
\* the table creates the row.
TurnInsertReturns(k, o) ==
  /\ svPc[k] = "writing"
  /\ svPc' = [svPc EXCEPT ![k] = AfterInsert(o, svRetries[k]).pc]
  /\ svRetries' = [svRetries EXCEPT ![k] = AfterInsert(o, svRetries[k]).retries]
  /\ msgRows' = IF o = "ok" THEN Append(msgRows, k) ELSE msgRows
  /\ UNCHANGED tvPc
  /\ UNCHANGED << chatVars, trVars, postVars, storeVars, readVars, snipVars, stampVars, ytVars, tripVars >>

\* part_000 321-322, 343-344: the sleep of message k's save is over, the next
\* insert is issued.
TurnBackoffElapsed(k) ==
  /\ svPc[k] = "backoff"
  /\ svPc' = [svPc EXCEPT ![k] = "writing"]
  /\ UNCHANGED << tvPc, svRetries, msgRows >>
  /\ UNCHANGED << chatVars, trVars, postVars, storeVars, readVars, snipVars, stampVars, ytVars, tripVars >>

\* ------------------------------------------------------------ specification
\* ------------------------------------- chatStorage: save, then read back
\* A text of at most 8192 characters is kept by what JSON.parse makes of it:
\* a syntax error ("none"), a number, null, an array, or an object with its
\* `text` and `timestamp` members ("absent" / NoTimestamp when it has none).
Text(json, id, text, timestamp) ==
  [json |-> json, id |-> id, text |-> text, timestamp |-> timestamp]
PlainText(id) == Text("none", id, "absent", NoTimestamp)
RoundTripTexts ==
  { PlainText("hello"), PlainText("inner"), PlainText(""),
    Text("number", "42", "absent", NoTimestamp),
    Text("null", "null", "absent", NoTimestamp),
    Text("array", "[1]", "absent", NoTimestamp) }
  \cup { Text("object", "{..}", t, ts) :
           t \in { "absent", "", "inner" }, ts \in { NoTimestamp, 0, 7 } }
RoundTripTimestamps == { 0, 5, 95 }
NowSeconds == { 1700000000 }
NoRow == [content |-> PlainText(""), timestamp |-> 0, is_ai |-> FALSE]
NoRoundTripMessage == [text |-> PlainText(""), timestamp |-> 0, isAi |-> FALSE]

\* message.timestamp || Math.floor(Date.now() / 1000)
RowTimestamp(timestamp, nowSeconds) == IF timestamp # 0 THEN timestamp ELSE nowSeconds

\* part_000 481-507: the Message built from a row
MapRow(row) ==
  LET parsedContent == row.content
  IN IF parsedContent.json \in { "object", "array" }
       THEN [text |-> IF parsedContent.text \notin { "absent", "" }
                        THEN PlainText(parsedContent.text) ELSE row.content,
             timestamp |-> IF parsedContent.timestamp \notin { NoTimestamp, 0 }
                             THEN parsedContent.timestamp ELSE row.timestamp,
             isAi |-> row.is_ai]
       ELSE [text |-> row.content, timestamp |-> row.timestamp, isAi |-> row.is_ai]

\* part_000 271-331: saveMessage whose insert succeeds
SaveThenInsert(text, timestamp, isAi, nowSeconds) ==
  /\ rtPc = "idle"
  /\ rtPc' = "saved"
  /\ rtMessage' = [text |-> text, timestamp |-> timestamp, isAi |-> isAi]
  /\ rtRow' = [content |-> text, timestamp |-> RowTimestamp(timestamp, nowSeconds),
               is_ai |-> isAi]
  /\ UNCHANGED rtRead
  /\ UNCHANGED << chatVars, trVars, postVars, storeVars, readVars, snipVars, stampVars, ytVars, turnSaveVars >>

\* part_000 441-511: getConversationMessages returns the row, mapped
ReadBack ==
  /\ rtPc = "saved"
  /\ rtPc' = "read"
  /\ rtRead' = MapRow(rtRow)
  /\ UNCHANGED << rtMessage, rtRow >>
  /\ UNCHANGED << chatVars, trVars, postVars, storeVars, readVars, snipVars, stampVars, ytVars, turnSaveVars >>

RoundTripReturned ==
  /\ rtPc = "read"
  /\ rtPc' = "idle"
  /\ rtMessage' = NoRoundTripMessage
  /\ rtRow' = NoRow
  /\ rtRead' = NoRoundTripMessage
  /\ UNCHANGED << chatVars, trVars, postVars, storeVars, readVars, snipVars, stampVars, ytVars, turnSaveVars >>

Init ==
  /\ srvPc = "IDLE"
  /\ srvStream = "none"
  /\ responseText = EmptyText
  /\ enqueued = << >>
  /\ closed = FALSE
  /\ streamCalls = 0
  /\ aiYielded = << >>
  /\ httpStatus = 0
  /\ wire = << >>
  /\ cliPc = "idle"
  /\ messages = GreetingMessages
  /\ aiMessageId = 0
  /\ accumulatedText = EmptyText
  /\ isAiThinking = FALSE
  /\ turn = 0
  /\ readOutcome = "none"
  /\ sawError = FALSE
  /\ flips = 0
  /\ chatHistory = << >>
  \* part_001 14-28: empty cache, counter 0, first window ends a minute after load
  /\ now = 0
  /\ transcriptCache = [v \in Videos |-> NoEntry]
  /\ requestCount = 0
  /\ resetTime = now + RateWindowMs
  /\ callPc = [c \in Callers |-> "idle"]
  /\ callVideo = [c \in Callers |-> "X"]
  /\ callNow = [c \in Callers |-> 0]
  /\ callRetries = [c \in Callers |-> 0]
  /\ callWakeAt = [c \in Callers |-> 0]
  /\ callResult = [c \in Callers |-> Null]
  /\ callAttempts = [c \in Callers |-> 0]
  /\ callLast = [c \in Callers |-> "none"]
  /\ callBackoffs = [c \in Callers |-> << >>]
  /\ callAdmit = [c \in Callers |-> "none"]
  /\ callWaits = [c \in Callers |-> 0]
  /\ callsStarted = 0
  \* no request received yet
  /\ postPc = "IDLE"
  /\ reqMessage = << >>
  /\ reqTimestamp = NoTimestamp
  /\ postTranscript = Null
  /\ timestampsToCheck = << >>
  /\ transcriptContext = << >>
  /\ messageToSend = NoMessage
  /\ sessionSends = << >>
  /\ postStatus = 0
  /\ postError = "none"
  /\ postInlineError = FALSE
  /\ aiOutcome = "none"
  \* no storage call made yet, no conversation row for the pair
  /\ smPc = "idle"
  /\ smText = NoContent
  /\ smContent = NoContent
  /\ smRetries = 0
  /\ smAttempts = 0
  /\ smBackoffs = << >>
  /\ smLast = "none"
  /\ smResult = "none"
  /\ smInserted = NoContent
  /\ conversations = << >>
  /\ nextRowId = 0
  /\ scPc = [c \in SaveCallers |-> "idle"]
  /\ scTitle = [c \in SaveCallers |-> "none"]
  /\ scExisting = [c \in SaveCallers |-> NoId]
  /\ scResult = [c \in SaveCallers |-> NoId]
  /\ scStarted = 0
  /\ lastWrite = "none"
  /\ rdPc = "idle"
  /\ rdTable = "none"
  /\ rdRows = 0
  /\ rdLimit = 0
  /\ rdPage = 0
  /\ rdData = << >>
  /\ rdSeen = << >>
  /\ rdFromFirst = FALSE
  /\ snPc = "idle"
  /\ snTranscript = << >>
  /\ snTimestamp = 0
  /\ snWindow = NoWindow
  /\ snResult = << >>
  /\ tsPc = "idle"
  /\ tsToken = [m |-> << >>, s |-> << >>]
  /\ tsParsed = NoTimestamp
  /\ tsFormatted = NoDigits
  /\ ytPc = "idle"
  /\ ytVideoId = FALSE
  /\ ytRetries = 0
  /\ ytOutcomes = << >>
  /\ ytBackoffs = << >>
  /\ ytStatus = 0
  /\ ytMarker = "none"
  /\ tvPc = "idle"
  /\ svPc = [k \in TurnMessages |-> "none"]
  /\ svRetries = [k \in TurnMessages |-> 0]
  /\ msgRows = << >>
  /\ rtPc = "idle"
  /\ rtMessage = NoRoundTripMessage
  /\ rtRow = NoRow
  /\ rtRead = NoRoundTripMessage

Next ==
  \/ \E t \in UserTexts : HandleSendMessage(t)
  \/ \E status \in RejectStatuses : PostReject(status)
  \/ PostStartStream
  \/ OpenAiStream
  \/ \E msg \in ErrorMessages : OpenAiStreamFails(msg)
  \/ \E d \in DeltaTexts : AiDelta(d)
  \/ AiStreamEnd
  \/ \E msg \in ErrorMessages : AiStreamFails(msg)
  \/ ReceiveResponse
  \/ FetchRejects
  \/ \E n \in 1..Len(wire) : ReadChunk(n)
  \/ ReadDone
  \/ ReadRejects

Spec == Init /\ [][Next]_vars

HistoryNext ==
  \/ \E l \in StoredMessageLists : LoadStoredMessages(l)
  \/ Next

HistorySpec == Init /\ [][HistoryNext]_vars

TranscriptNext ==
  \/ \E n \in InitialRequestCounts : EarlierFetches(n)
  \/ \E c \in Callers, v \in Videos : GetTranscript(c, v)
  \/ \E c \in Callers : RateLimitWaitElapsed(c)
  \/ \E c \in Callers, o \in FetchOutcomes : FetchReturns(c, o)
  \/ \E c \in Callers : BackoffElapsed(c)
  \/ \E c \in Callers : CallReturned(c)
  \/ AdvanceTime

TranscriptSpec == Init /\ [][TranscriptNext]_vars

PostNext ==
  \/ \E m \in RequestMessages, t \in RequestTimestamps : ReceiveRequest(m, t)
  \/ RejectMissingFields
  \/ \E tr \in TranscriptResults : AwaitTranscript(tr)
  \/ \E o \in AiSendOutcomes : SendContext(o)
  \/ \E o \in AiSendOutcomes : StartStreamingSend(o)
  \/ PostFinished

PostSpec == Init /\ [][PostNext]_vars

SaveMessageNext ==
  \/ \E len \in MessageLengths : SaveMessage(len)
  \/ \E o \in WriteOutcomes : InsertReturns(o)
  \/ SaveBackoffElapsed
  \/ SaveReturned

SaveMessageSpec == Init /\ [][SaveMessageNext]_vars

ConversationNext ==
  \/ \E c \in SaveCallers, t \in Titles : SaveConversation(c, t)
  \/ \E c \in SaveCallers, r \in DbResults : SelectReturns(c, r)
  \/ \E c \in SaveCallers, r \in DbResults : UpdateReturns(c, r)
  \/ \E c \in SaveCallers, r \in DbResults : ConversationInsertReturns(c, r)
  \/ \E c \in SaveCallers : SaveConversationReturned(c)

ConversationSpec == Init /\ [][ConversationNext]_vars

ReadNext ==
  \/ \E n \in StoredRowCounts : StoreRows(n)
  \/ \E l \in ReadLimits, p \in ReadPages \cup { rdPage + 1 } : GetUserConversations(l, p)
  \/ \E l \in ReadLimits, p \in ReadPages \cup { rdPage + 1 } : GetConversationMessages(l, p)

ReadSpec == Init /\ [][ReadNext]_vars

SnippetNext ==
  \/ \E tr \in SnippetTranscripts, t \in SnippetTimestamps, w \in SnippetWindows :
       CallGetTranscriptSnippet(tr, t, w)
  \/ SnippetReturned

SnippetSpec == Init /\ [][SnippetNext]_vars

StampNext ==
  \/ \E token \in TimestampTokens : ParseTimestamp(token)
  \/ FormatParsed
  \/ StampReturned

StampSpec == Init /\ [][StampNext]_vars

DetailsNext ==
  \/ \E v \in BOOLEAN, k \in BOOLEAN : DetailsGet(v, k)
  \/ \E o \in UpstreamOutcomes : UpstreamSettles(o)
  \/ DetailsBackoffElapsed
  \/ DetailsAnswered

DetailsSpec == Init /\ [][DetailsNext]_vars

\* axios.get settles within its 7 s timeout and setTimeout fires.
DetailsFairSpec ==
  /\ DetailsSpec
  /\ WF_vars(\E o \in UpstreamOutcomes : UpstreamSettles(o))
  /\ WF_vars(DetailsBackoffElapsed)

TurnSaveNext ==
  \/ SendAndSaveUserMessage
  \/ DoneRecordSavesAiMessage
  \/ \E k \in TurnMessages, o \in WriteOutcomes : TurnInsertReturns(k, o)
  \/ \E k \in TurnMessages : TurnBackoffElapsed(k)

TurnSaveSpec == Init /\ [][TurnSaveNext]_vars

RoundTripNext ==
  \/ \E text \in RoundTripTexts, t \in RoundTripTimestamps, isAi \in BOOLEAN,
        n \in NowSeconds : SaveThenInsert(text, t, isAi, n)
  \/ ReadBack
  \/ RoundTripReturned

RoundTripSpec == Init /\ [][RoundTripNext]_vars

\* ================================================================= claims
IsChunkRecord(r) ==
  /\ r.done = FALSE
  /\ r.chunk # Absent
  /\ r.error = Absent
  /\ r.fullResponse = Absent

DoneIndexes == { i \in 1..Len(enqueued) : enqueued[i].done }

RECURSIVE ConcatChunks(_)
ConcatChunks(recs) ==
  IF recs = << >> THEN EmptyText ELSE Head(recs).chunk \o ConcatChunks(Tail(recs))

RECURSIVE NonEmptyTexts(_)
NonEmptyTexts(ds) ==
  IF ds = << >> THEN << >>
  ELSE (IF Head(ds) = EmptyText THEN << >> ELSE << Head(ds) >>) \o NonEmptyTexts(Tail(ds))

Forwarded == SubSeq(enqueued, 1, Len(enqueued) - 1)

CurrentAiMessage == CHOOSE m \in { messages[i] : i \in 1..Len(messages) } : m.id = aiMessageId

RelayShape ==
  /\ srvPc \in {"COMPLETE", "FAILED"} =>
       /\ closed
       /\ enqueued # << >>
       /\ DoneIndexes = { Len(enqueued) }
       /\ \A i \in 1..(Len(enqueued) - 1) : IsChunkRecord(enqueued[i])
  /\ srvPc \in {"IDLE", "STREAMING", "REJECTED"} =>
       /\ ~closed
       /\ \A i \in 1..Len(enqueued) : IsChunkRecord(enqueued[i])
  /\ srvPc \in {"IDLE", "REJECTED"} => enqueued = << >>

RelayStep ==
  \/ turn' # turn
  \/ /\ srvPc' # srvPc =>
          << srvPc, srvPc' >> \in { << "IDLE", "STREAMING" >>, << "IDLE", "REJECTED" >>,
                                    << "STREAMING", "COMPLETE" >>,
                                    << "STREAMING", "FAILED" >> }
     /\ closed => (closed' /\ enqueued' = enqueued)
     /\ (~closed /\ closed') => (Len(enqueued') = Len(enqueued) + 1 /\ enqueued'[Len(enqueued')].done)

\* C1: a POST that reaches the streaming phase emits exactly one done:true
\* record, as the last record, after {chunk, done:false} records only, and
\* closes the stream with it; the relay moves IDLE -> STREAMING -> COMPLETE or
\* FAILED and emits nothing after the terminal record.
C1_OneTerminalRecordLast == [](RelayShape) /\ [][RelayStep]_vars

C1_Witness == srvPc = "COMPLETE" /\ Len(enqueued) = 3 /\ closed

\* C2: on a normal end the terminal record's fullResponse is the
\* concatenation, in order, of the chunk fields forwarded before it, and those
\* chunk fields are the non-empty deltas the AI yielded, each once.
C2_FullResponseIsConcatenation ==
  srvPc = "COMPLETE" =>
    /\ enqueued[Len(enqueued)].fullResponse = ConcatChunks(Forwarded)
    /\ [i \in 1..Len(Forwarded) |-> << Forwarded[i].chunk >>] =
         [i \in 1..Len(NonEmptyTexts(aiYielded)) |-> << NonEmptyTexts(aiYielded)[i] >>]

C2_Witness ==
  /\ srvPc = "COMPLETE"
  /\ enqueued[Len(enqueued)].fullResponse = << "a", "b" >>
  /\ Len(aiYielded) = 2

\* C3: when the AI stream fails after k >= 0 forwarded deltas the relay emits
\* exactly one {error, done:true} record, without a fullResponse field, closes
\* the stream, and has called sendMessageStream once only.
C3_ErrorRecordNoRetry ==
  /\ streamCalls <= 1
  /\ srvPc = "FAILED" =>
       /\ { i \in 1..Len(enqueued) : enqueued[i].error # Absent } = { Len(enqueued) }
       /\ enqueued[Len(enqueued)].done
       /\ enqueued[Len(enqueued)].fullResponse = Absent
       /\ enqueued[Len(enqueued)].chunk = Absent
       /\ closed
       /\ streamCalls = 1

C3_Witness == srvPc = "FAILED" /\ Len(enqueued) >= 2 /\ streamCalls = 1

\* C4: for a stream that ended normally, once the client has read the whole
\* body the assistant message shows fullResponse and is no longer streaming,
\* however the transport cut the body into read chunks.
C4_ClientShowsFullResponse ==
  (cliPc = "finished" /\ readOutcome = "eof" /\ srvPc = "COMPLETE") =>
    /\ CurrentAiMessage.text = enqueued[Len(enqueued)].fullResponse
    /\ ~CurrentAiMessage.isStreaming

\* C5: after the client has parsed an inline {error, done:true} record the
\* turn ends with the assistant message no longer streaming (and marked as
\* failed, its partial text kept).
C5_InlineErrorEndsTurn ==
  (cliPc = "finished" /\ sawError) => ~CurrentAiMessage.isStreaming

\* C6: when handleSendMessage has finished, however the turn ended, no
\* message is still streaming, and the placeholder left streaming exactly once.
C6_NoMessageLeftStreaming ==
  cliPc = "finished" =>
    /\ \A i \in 1..Len(messages) : ~messages[i].isStreaming
    /\ flips = 1

\* C7: two getTranscript calls for one video within the TTL window, each of
\* whose fetches succeeded, together issue at most one external fetch, also
\* when they overlap in time.
C7_AtMostOneFetchWithinTtl ==
  \A c1, c2 \in Callers :
    ( /\ c1 # c2
      /\ callVideo[c1] = callVideo[c2]
      /\ callPc[c1] = "done" /\ callPc[c2] = "done"
      /\ callResult[c1] # Null /\ callResult[c2] # Null
      /\ callAttempts[c1] <= 1 /\ callAttempts[c2] <= 1
      /\ callNow[c1] - callNow[c2] < CACHE_DURATION
      /\ callNow[c2] - callNow[c1] < CACHE_DURATION )
    => callAttempts[c1] + callAttempts[c2] <= 1

\* C8: requestCount never exceeds MAX_REQUESTS_PER_MINUTE.
C8_RequestCountWithinCeiling == requestCount <= MAX_REQUESTS_PER_MINUTE

\* C9: a call that finds the counter at the ceiling suspends; none passes the
\* rate check and fetches while the counter is at or above the ceiling.
C9_CallsAtCeilingSuspend == \A c \in Callers : callAdmit[c] # "at"

StrictlyGrowing(seq) == \A i \in 1..(Len(seq) - 1) : seq[i] < seq[i + 1]

\* C10: a call makes at most MAX_RETRIES attempts; when all of them fail with a
\* rate-limit-like or temporary error it has slept a growing backoff between
\* them and returns null; a failure of another kind ends the call at once
\* with null; the call always returns entries or null.
C10_RetryThenNull ==
  \A c \in Callers :
    /\ callAttempts[c] <= MAX_RETRIES
    /\ StrictlyGrowing(callBackoffs[c])
    /\ Len(callBackoffs[c]) <= callAttempts[c]
    /\ (callPc[c] = "done" /\ (IsRateLimited(callLast[c]) \/ IsTemporaryError(callLast[c]))) =>
         /\ callAttempts[c] = MAX_RETRIES
         /\ Len(callBackoffs[c]) = MAX_RETRIES - 1
         /\ callResult[c] = Null
    /\ callLast[c] = "other" => (callPc[c] = "done" /\ callResult[c] = Null)
    /\ callPc[c] = "backoff" => (IsRateLimited(callLast[c]) \/ IsTemporaryError(callLast[c]))
    /\ callPc[c] = "done" => callResult[c] \in { Null, Entries(callVideo[c]) }

C10_Witness ==
  \E c \in Callers :
    /\ callPc[c] = "done"
    /\ callLast[c] = "temporary"
    /\ callAttempts[c] = MAX_RETRIES
    /\ callBackoffs[c] = << 1000, 2000 >>

\* C11: a fetch attempt that ends the call without entries (0 entries, or a
\* failure) returns null and leaves the transcript cache as it was; a call
\* made while the cache holds no fresh entry for the video does not return
\* from the cache: it goes to the external fetch (or to the rate-limit wait
\* that precedes it).
C11_NoNegativeCaching ==
  [][ \A c \in Callers :
        /\ (callPc[c] = "fetching" /\ callPc'[c] # "fetching"
              /\ callLast'[c] # "ok") =>
             /\ transcriptCache' = transcriptCache
             /\ callPc'[c] = "done" => callResult'[c] = Null
        /\ (callPc[c] = "idle" /\ callPc'[c] # "idle"
              /\ ~CacheFresh(callVideo'[c], now)) =>
             callPc'[c] \in {"fetching", "waiting"} ]_vars

C11_Witness ==
  \E c1, c2 \in Callers :
    /\ callPc[c1] = "done" /\ callLast[c1] = "empty" /\ callResult[c1] = Null
    /\ callVideo[c2] = callVideo[c1]
    /\ transcriptCache[callVideo[c1]] = NoEntry
    /\ callPc[c2] = "fetching"
    /\ callNow[c2] > callNow[c1]

\* C12: when getTranscript resolves to null for a request that carries a
\* message, the handler never answers with an error Response: the prompt has
\* no transcript section, no context send is made, the streaming send carries
\* the message, the Response is 200, and an inline error record appears only
\* when the AI engine itself failed the streaming send.
C12_NullTranscriptStillStreams ==
  (postPc \notin {"IDLE", "RECEIVED"} /\ reqMessage # << >> /\ postTranscript = Null) =>
    /\ postPc # "REJECTED"
    /\ transcriptContext = << >>
    /\ \A i \in 1..Len(sessionSends) : sessionSends[i].kind = "sendMessageStream"
    /\ postPc \in {"STREAMING", "FAILED"} =>
         /\ postStatus = 200
         /\ Len(sessionSends) = 1
         /\ sessionSends[1].message = MessageToSend(reqMessage, reqTimestamp)
    /\ postInlineError => aiOutcome # "ok"

C12_Witness ==
  /\ postTranscript = Null
  /\ postPc = "STREAMING"
  /\ postStatus = 200
  /\ timestampsToCheck # << >>
  /\ Len(sessionSends) = 1

RECURSIVE SeqToSet(_)
SeqToSet(seq) == IF seq = << >> THEN { } ELSE { Head(seq) } \cup SeqToSet(Tail(seq))

\* C13: the candidate timestamps used for the snippet lookup are, in
\* milliseconds, the explicit playback timestamp t (sent in seconds) times
\* 1000 together with the timestamps extracted from the message; each snippet
\* block's header names the [MM:SS] of its candidate.
C13_CandidateTimestampsInMs ==
  postPc \in {"ASSEMBLED", "READY", "STREAMING", "FAILED"} =>
    /\ SeqToSet(timestampsToCheck) =
         (IF reqTimestamp # NoTimestamp THEN { reqTimestamp * 1000 } ELSE { })
           \cup SeqToSet(ExtractTimestamps(reqMessage))
    /\ \A i \in 1..Len(transcriptContext) :
         \E ms \in SeqToSet(timestampsToCheck) :
           transcriptContext[i].header = FormatTime(ms \div 1000)

\* C14: a request makes exactly one send on its chat session, the streaming
\* send; until that send the session has seen none.
C14_OnlyTheStreamingSend ==
  /\ \A i \in 1..Len(sessionSends) : sessionSends[i].kind = "sendMessageStream"
  /\ Len(sessionSends) <= 1
  /\ postPc \in {"STREAMING", "FAILED"} => Len(sessionSends) = 1

\* C17: when the AI engine blocks the content of the turn (the streaming send
\* fails as blocked), the Response is HTTP 400 with the content-blocked error.
C17_SafetyBlockIsHttp400 ==
  (Len(sessionSends) > 0
     /\ sessionSends[Len(sessionSends)].kind = "sendMessageStream"
     /\ aiOutcome = "blocked") =>
    /\ postStatus = 400
    /\ postError = OuterCatchMessage("blocked")

C16_TurnShape ==
  /\ cliPc \in {"awaitResponse", "reading"} => (isAiThinking /\ ~InputEnabled)
  /\ cliPc \in {"idle", "finished"} => (~isAiThinking /\ InputEnabled)

C16_TurnStep == turn' # turn => cliPc \in {"idle", "finished"}

C18_AtMostThreeWrites ==
  /\ smAttempts <= 3
  /\ smLast = "other" => smPc = "done"
  /\ (smPc = "done" /\ smLast # "ok") => smResult = "false"

\* C19: content no longer than MAX_CONTENT_SIZE is persisted as it is; longer
\* content is persisted as its first MAX_CONTENT_SIZE - 3 characters followed
\* by '...', MAX_CONTENT_SIZE characters in all; the message text itself is
\* not changed.
C19_TruncatedToCap ==
  smPc # "idle" =>
    /\ smContent = IF Length(smText) <= 8192 THEN smText
                   ELSE [upto |-> 8189, dots |-> TRUE]
    /\ Length(smText) > 8192 => Length(smContent) = 8192
    /\ smText \in { Str(n) : n \in MessageLengths }
    /\ smInserted # NoContent => smInserted = smContent

C19_Witness ==
  /\ smPc = "done"
  /\ smResult = "true"
  /\ Length(smText) = 8193
  /\ Length(smInserted) = 8192
  /\ smInserted.dots

\* C20: the conversations table never holds more than one row for the pair;
\* once a saveConversation call has succeeded there is exactly one, it carries
\* the title of the successful call whose write came last, and every
\* successful call returned its id.
C20_OneRowLatestTitle ==
  /\ Len(conversations) <= 1
  /\ lastWrite # "none" =>
       /\ Len(conversations) = 1
       /\ conversations[1].title = lastWrite
  /\ \A c \in SaveCallers :
       (scPc[c] = "done" /\ scResult[c] # NoId) =>
         /\ Len(conversations) = 1
         /\ scResult[c] = conversations[1].id

C20_Witness ==
  /\ scStarted >= 2
  /\ Len(conversations) = 1
  /\ conversations[1].title = "t2"
  /\ \E c \in SaveCallers :
       /\ scPc[c] = "done"
       /\ scExisting[c] = conversations[1].id
       /\ scResult[c] = conversations[1].id
       /\ scTitle[c] = "t2"


\* C21: getUserConversations returns at most 100 conversations and
\* getConversationMessages at most 200 messages per call, whatever limit and
\* page the caller passes.
C21_ReadsWithinHardMaximum ==
  /\ rdTable = "conversations" => Len(rdData) <= ConversationHardMax
  /\ rdTable = "messages" => Len(rdData) <= MessageHardMax

C21_Witness ==
  /\ rdTable = "conversations"
  /\ rdLimit > ConversationHardMax
  /\ Len(rdData) = ConversationHardMax
  /\ rdRows > ConversationHardMax

\* C30: reading pages 1, 2, 3, ... with one limit L > 0 until an empty page
\* returns every stored row exactly once and in order, also for L above the
\* hard maximum of the read.
C30_PagingReturnsEveryRowOnce ==
  (rdPc = "read" /\ rdFromFirst /\ rdLimit > 0 /\ rdData = << >>)
    => rdSeen = [i \in 1..rdRows |-> i]


\* The closed interval of the entry meets the closed interval [t - w, t + w].
Intersects(entry, t, w) ==
  /\ entry.offset <= t + w
  /\ entry.offset + entry.duration >= t - w

\* C22: getTranscriptSnippet(transcript, t, w) selects exactly the entries
\* whose interval [offset, offset + duration] meets [t - w, t + w], touching
\* included, in transcript order, and returns '' exactly when none is selected.
C22_SnippetIsIntervalIntersection ==
  (snPc = "done" /\ snWindow # NoWindow) =>
    LET hit == { i \in 1..Len(snTranscript) :
                   Intersects(snTranscript[i], snTimestamp, snWindow) }
    IN /\ Len(snResult) = Cardinality(hit)
       /\ \A k \in 1..Len(snResult) : snResult[k].text \in hit
       /\ \A k \in 1..(Len(snResult) - 1) : snResult[k].text < snResult[k + 1].text
       /\ (snResult = << >>) <=> (hit = { })

C22_Witness ==
  /\ snPc = "done"
  /\ snWindow = 5000
  /\ snTimestamp = 25000
  /\ Len(snTranscript) = 2
  /\ snTranscript[1].offset = 0 /\ snTranscript[1].duration = 60000
  /\ snTranscript[2].offset = 10000 /\ snTranscript[2].duration = 0
  /\ Len(snResult) = 1

\* C23: called without a window argument, the snippet covers 10 s before to
\* 10 s after the timestamp: no entry lying entirely more than 10 s away from
\* the timestamp is included.
C23_DefaultWindowIsTenSeconds ==
  (snPc = "done" /\ snWindow = NoWindow) =>
    \A k \in 1..Len(snResult) :
      Intersects(snTranscript[snResult[k].text], snTimestamp, DocumentedHalfWindowMs)


\* C24: for every token "[M:SS]" / "[MM:SS]" the timestamp pattern accepts,
\* formatTime(parseTimestamp(s) / 1000) is s without the brackets and with the
\* minutes zero-padded to two digits.
C24_ParseFormatRoundTrip ==
  tsPc = "formatted" => tsFormatted = << PadStart2(tsToken.m), tsToken.s >>


\* The failures the claim allows the route to retry: rate limits, 5xx and
\* network failures (no response).
RetryAllowed(o) ==
  /\ o.kind = "error"
  /\ ~(o.status = 403 /\ o.quota)
  /\ o.status \in { 429, 503, 0 } \/ (o.status = 403 /\ o.rate)

\* GET /youtube/details ends after at most 3 upstream requests; a missing
\* videoId is answered 400 with no upstream request, an empty result 404,
\* quota exhaustion at once with 429 and the QUOTA_EXCEEDED marker; only
\* rate-limit and 5xx/network failures are retried, every other failure is
\* answered without retry.
C25_DetailsShape ==
  /\ Len(ytOutcomes) <= 3
  /\ ytPc = "requesting" => Len(ytOutcomes) < 3
  /\ \A i \in 1..(Len(ytOutcomes) - 1) : RetryAllowed(ytOutcomes[i])
  /\ ytPc = "backoff" => RetryAllowed(ytOutcomes[Len(ytOutcomes)])
  /\ (ytPc = "done" /\ ~ytVideoId) => (ytStatus = 400 /\ ytOutcomes = << >>)
  /\ (ytPc \in { "backoff", "done" } /\ ytOutcomes # << >>) =>
       LET last == ytOutcomes[Len(ytOutcomes)]
       IN /\ last.kind = "empty" => (ytPc = "done" /\ ytStatus = 404)
          /\ (last.kind = "error" /\ last.status = 403 /\ last.quota) =>
               (ytPc = "done" /\ ytStatus = 429 /\ ytMarker = "QUOTA_EXCEEDED")
          /\ (last.kind = "error" /\ ~RetryAllowed(last)) => ytPc = "done"

\* C25: the shape above holds throughout, and every request that reached the
\* upstream loop is answered.
C25_DetailsBoundedRetries ==
  /\ [](C25_DetailsShape)
  /\ (ytPc \in { "requesting", "backoff" }) ~> (ytPc = "done")

C25_Witness ==
  /\ ytPc = "done"
  /\ Len(ytOutcomes) = 3
  /\ ytOutcomes[3].status = 429
  /\ ytStatus = 429
  /\ ytMarker = "none"
  /\ ytBackoffs = << 200, 400 >>


\* C26: a transcript stored by getTranscript is stamped with the time at which
\* it is stored, after any rate-limit wait, fetch latency and retry backoff of
\* the call, so the entry is fresh for a full TTL from that moment.
C26_CacheStampIsStoreTime ==
  [][\A v \in Videos :
       transcriptCache'[v] # transcriptCache[v] =>
         transcriptCache'[v].timestamp = now]_vars


\* C27: when both saves of a completed turn succeed, the user's message row is
\* created before the assistant's, under every timing of save retries and of
\* stream completion.
C27_UserRowBeforeAiRow ==
  (svPc["user"] = "true" /\ svPc["ai"] = "true") => msgRows = << "user", "ai" >>


\* C28: when two saveConversation calls for the pair both look the pair up
\* before either writes, both return the same non-null conversation id and
\* exactly one row exists afterwards.  A call that is inserting saw no row; if a
\* row exists when its insert ends, the other call looked up and inserted
\* meanwhile.
C28_OverlappingSavesAgree ==
  [][\A c \in SaveCallers :
       (scPc[c] = "inserting" /\ scPc'[c] = "done" /\ conversations # << >>) =>
         /\ Len(conversations') = 1
         /\ scResult'[c] = conversations'[1].id]_vars


\* C29: for a text of length <= 8192, a successful saveMessage followed by
\* getConversationMessages returns a message with the same text, the same
\* isAi and the same playback timestamp, for every text (also text that is
\* valid JSON) and every timestamp >= 0 (also 0).
C29_SaveReadRoundTrip ==
  rtPc = "read" =>
    /\ rtRead.text = rtMessage.text
    /\ rtRead.isAi = rtMessage.isAi
    /\ rtRead.timestamp = rtMessage.timestamp

====
